---- MODULE Spec2Model ----
(***************************************************************************)
(* next-config: versioned configuration records backed by TOML files.      *)
(*                                                                         *)
(* The model follows src/src/config.rs (ConfigData: merge_defaults,        *)
(* migrate, extract_version, load_from_dir, save) and src/src/store.rs     *)
(* (ConfigStore: init, get, load, load_all, update).  The schemas, the     *)
(* migration steps and the file contents are the inputs; they are taken    *)
(* from the repository's tests.                                            *)
(***************************************************************************)
EXTENDS Integers, Sequences, FiniteSets, TLC

VARIABLES
    fs,          \* the configuration directory: path -> file content
    configs,     \* ConfigStore.configs: registered type -> ConfigData<T>(Option<T>)
    registered,  \* the inventory of RegisteredConfig entries of the process
    migrations,  \* the inventory of RegisteredMigration entries of the process
    last,        \* the most recent ConfigStore call and what it did
    dirents,     \* a directory seen by several processes: name -> inode (0: none)
    inodes,      \* the inodes created so far: inode -> content, a sequence of chunks
    flocks,      \* the advisory locks held: [ino, by, mode]
    procs        \* the processes working on that directory

store_vars == <<fs, configs, registered, migrations, last>>

file_vars == <<dirents, inodes, flocks, procs>>

vars == <<fs, configs, registered, migrations, last,
          dirents, inodes, flocks, procs>>

(***************************************************************************)
(* Bounds of the model.                                                    *)
(***************************************************************************)
\* file versions 1..MaxFileVersion are tried as the declared `_version`
MaxFileVersion == 4

\* a content passed to a write is written in MaxChunks pieces
MaxChunks == 2

(***************************************************************************)
(* serde_value::Value.  A scalar is a tagged payload; a Value::Map is a    *)
(* function from key strings to scalars.                                   *)
(***************************************************************************)
Scalar(t, n, s) == [t |-> t, n |-> n, s |-> s]
U8(n) == Scalar("U8", n, "")
U32(n) == Scalar("U32", n, "")
I64(n) == Scalar("I64", n, "")
Str(s) == Scalar("String", 0, s)
Bool(b) == Scalar("Bool", IF b THEN 1 ELSE 0, "")

\* the payload of a typed Rust field (the type is in the schema, not the value)
Payload(n, s) == [n |-> n, s |-> s]

EmptyMap == [k \in {} |-> Scalar("", 0, "")]
NoInstance == [k \in {} |-> Payload(0, "")]

\* u32::MAX; u32 is modelled 31 bits wide, the widest the model checker's
\* integers allow
U32_MAX == 2147483647
U8_MAX == 255

IntTags == {"U8", "U32", "I64"}

(***************************************************************************)
(* The schemas (impl Config): VERSION, FILE_NAME, the struct's fields and  *)
(* its Default.                                                            *)
(***************************************************************************)
\* TmpNamedConfig is a schema whose FILE_NAME has the extension "tmp"; the
\* trait puts no condition on FILE_NAME
ConfigTypes ==
    {"MultiMigrationConfig", "BasicConfig", "UnregisteredConfig",
     "TmpNamedConfig"}

VERSION(T) ==
    CASE T = "MultiMigrationConfig" -> 3
      [] T = "BasicConfig" -> 1
      [] T = "UnregisteredConfig" -> 1
      [] T = "TmpNamedConfig" -> 1

\* a file name is <<stem, extension>>
FILE_NAME(T) ==
    CASE T = "MultiMigrationConfig" -> <<"multi_migration", "toml">>
      [] T = "BasicConfig" -> <<"basic", "toml">>
      [] T = "UnregisteredConfig" -> <<"unregistered", "toml">>
      [] T = "TmpNamedConfig" -> <<"basic", "tmp">>

\* the Rust type of every field of the struct
FieldType(T) ==
    CASE T = "MultiMigrationConfig" ->
            [name |-> "String", timeout |-> "U32", max_retries |-> "U8"]
      [] T = "BasicConfig" ->
            [name |-> "String", count |-> "U32", enabled |-> "Bool"]
      [] T = "UnregisteredConfig" ->
            [field |-> "String"]
      [] T = "TmpNamedConfig" ->
            [name |-> "String"]

Fields(T) == DOMAIN FieldType(T)

\* impl Default for T
Default(T) ==
    CASE T = "MultiMigrationConfig" ->
            [name |-> Payload(0, "default"), timeout |-> Payload(30, ""),
             max_retries |-> Payload(3, "")]
      [] T = "BasicConfig" ->
            [name |-> Payload(0, "default_name"), count |-> Payload(42, ""),
             enabled |-> Payload(1, "")]
      [] T = "UnregisteredConfig" ->
            [field |-> Payload(0, "")]
      [] T = "TmpNamedConfig" ->
            [name |-> Payload(0, "default_name")]

\* #[serde(default)] on the struct: a missing field deserializes to its default
serde_default(T) == T = "BasicConfig"

(***************************************************************************)
(* serde: typed instance <-> Value.                                        *)
(***************************************************************************)
\* serde_value::to_value(instance): a Map with one tagged scalar per field
to_value(T, inst) ==
    [k \in Fields(T) |-> Scalar(FieldType(T)[k], inst[k].n, inst[k].s)]

\* can the scalar v be deserialized into a field of Rust type ty
Accepts(ty, v) ==
    CASE ty = "String" -> v.t = "String"
      [] ty = "Bool" -> v.t = "Bool"
      [] ty = "U32" -> v.t \in IntTags /\ v.n >= 0 /\ v.n <= U32_MAX
      [] ty = "U8" -> v.t \in IntTags /\ v.n >= 0 /\ v.n <= U8_MAX

\* deserialize that gives a missing field its Default whatever the struct
deserialize_fills_missing(T, value) ==
    LET present == Fields(T) \cap DOMAIN value
    IN  IF \E k \in present : ~Accepts(FieldType(T)[k], value[k])
        THEN [ok |-> FALSE, inst |-> NoInstance]
        ELSE [ok |-> TRUE,
              inst |-> [k \in Fields(T) |->
                          IF k \in present
                          THEN Payload(value[k].n, value[k].s)
                          ELSE Default(T)[k]]]

\* <T as Deserialize>::deserialize(value): unknown keys are ignored, a field
\* of the wrong type is an error, a missing field is an error unless the
\* struct is #[serde(default)]
deserialize(T, value) ==
    LET present == Fields(T) \cap DOMAIN value
        missing == Fields(T) \ DOMAIN value
    IN  IF (\E k \in present : ~Accepts(FieldType(T)[k], value[k]))
           \/ (missing # {} /\ ~serde_default(T))
        THEN [ok |-> FALSE, inst |-> NoInstance]
        ELSE [ok |-> TRUE,
              inst |-> [k \in Fields(T) |->
                          IF k \in present
                          THEN Payload(value[k].n, value[k].s)
                          ELSE Default(T)[k]]]

(***************************************************************************)
(* toml: text <-> Value.  A file content is absent, a TOML document (its   *)
(* root table, and who formatted the text) or a text that is not TOML.     *)
(***************************************************************************)
Absent == [kind |-> "absent", table |-> EmptyMap, fmt |-> ""]
Invalid == [kind |-> "invalid", table |-> EmptyMap, fmt |-> ""]
\* what an interrupted fs::write leaves: a truncated text
Partial == [kind |-> "partial", table |-> EmptyMap, fmt |-> ""]
Text(table, fmt) == [kind |-> "text", table |-> table, fmt |-> fmt]

\* toml::from_str::<Value>: integers come back as I64 whatever wrote them
toml_from_str(contents) ==
    IF contents.kind # "text"
    THEN [ok |-> FALSE, value |-> EmptyMap]
    ELSE [ok |-> TRUE,
          value |-> [k \in DOMAIN contents.table |->
                       LET x == contents.table[k]
                       IN  CASE x.t = "integer" -> I64(x.n)
                             [] x.t = "string" -> Str(x.s)
                             [] x.t = "boolean" -> Scalar("Bool", x.n, "")]]

\* toml::to_string_pretty(&config): every integer type is written as a TOML
\* integer
toml_to_string_pretty(config) ==
    Text([k \in DOMAIN config |->
            LET x == config[k]
            IN  CASE x.t \in IntTags -> Scalar("integer", x.n, "")
                  [] x.t = "String" -> Scalar("string", 0, x.s)
                  [] x.t = "Bool" -> Scalar("boolean", x.n, "")],
         "pretty")

(***************************************************************************)
(* The directory.                                                          *)
(***************************************************************************)
\* Path::with_extension: the extension of the file name is replaced
with_extension(path, ext) == <<path[1], ext>>

Paths ==
    {FILE_NAME(T) : T \in ConfigTypes}
    \cup {with_extension(FILE_NAME(T), "tmp") : T \in ConfigTypes}

(***************************************************************************)
(* Migration steps (impl Migration) and the inventory of                   *)
(* RegisteredMigration entries [id, from, f].                              *)
(***************************************************************************)
\* map.insert(key, v)
Insert(map, key, v) ==
    [k \in DOMAIN map \cup {key} |-> IF k = key THEN v ELSE map[k]]

\* steps that write with entry(key).or_insert(v): a key the value already
\* has is left alone
ApplyStep_keeps_existing(f, value) ==
    LET or_insert(k, v) == IF k \in DOMAIN value THEN value
                           ELSE Insert(value, k, v)
    IN  CASE f = "MultiMigrationV1ToV2" ->
                [ok |-> TRUE, value |-> or_insert("timeout", U32(60))]
          [] f = "MultiMigrationV2ToV3" ->
                [ok |-> TRUE, value |-> or_insert("max_retries", U8(5))]
          [] f = "MultiMigrationV2ToV3Alt" ->
                [ok |-> TRUE, value |-> or_insert("timeout", U32(90))]
          [] f = "ForeignStep" ->
                [ok |-> TRUE, value |-> or_insert("name", Str("foreign"))]
          [] f = "FailingStep" ->
                [ok |-> FALSE, value |-> value]

\* the MigrateFn named f applied to value: Ok(()) with the value it leaves,
\* or Err
ApplyStep(f, value) ==
    CASE f = "MultiMigrationV1ToV2" ->
            [ok |-> TRUE, value |-> Insert(value, "timeout", U32(60))]
      [] f = "MultiMigrationV2ToV3" ->
            [ok |-> TRUE, value |-> Insert(value, "max_retries", U8(5))]
      [] f = "MultiMigrationV2ToV3Alt" ->
            [ok |-> TRUE, value |-> Insert(value, "timeout", U32(90))]
      [] f = "ForeignStep" ->
            [ok |-> TRUE, value |-> Insert(value, "name", Str("foreign"))]
      [] f = "FailingStep" ->
            [ok |-> FALSE, value |-> value]

RegisteredMigration(id, from, f) == [id |-> id, from |-> from, f |-> f]

\* submit_migration! entries of tests/migration_tests.rs
TestRegistry ==
    {RegisteredMigration("MultiMigrationConfig", 1, "MultiMigrationV1ToV2"),
     RegisteredMigration("MultiMigrationConfig", 2, "MultiMigrationV2ToV3")}

\* no step for source version 2
GapRegistry ==
    {RegisteredMigration("MultiMigrationConfig", 1, "MultiMigrationV1ToV2")}

\* the step for source version 2 returns an error
FailRegistry ==
    {RegisteredMigration("MultiMigrationConfig", 1, "MultiMigrationV1ToV2"),
     RegisteredMigration("MultiMigrationConfig", 2, "FailingStep")}

\* the step for source version 1 returns an error, a step for 2 is registered
FailFirstRegistry ==
    {RegisteredMigration("MultiMigrationConfig", 1, "FailingStep"),
     RegisteredMigration("MultiMigrationConfig", 2, "MultiMigrationV2ToV3")}

Registries == {TestRegistry, GapRegistry, FailRegistry, FailFirstRegistry}

\* two steps submitted for source version 2 of MultiMigrationConfig, and
\* steps submitted for the same source versions under BasicConfig's identity
CrowdedRegistry ==
    {RegisteredMigration("MultiMigrationConfig", 1, "MultiMigrationV1ToV2"),
     RegisteredMigration("MultiMigrationConfig", 2, "MultiMigrationV2ToV3"),
     RegisteredMigration("MultiMigrationConfig", 2, "MultiMigrationV2ToV3Alt"),
     RegisteredMigration("BasicConfig", 1, "ForeignStep"),
     RegisteredMigration("BasicConfig", 2, "ForeignStep")}

\* a HashMap collected from every submitted step, whatever its identity
MigrationMaps_ignores_identity(T, migs) ==
    LET froms == {m.from : m \in migs}
    IN  {map \in [froms -> {m.f : m \in migs}] :
            \A v \in froms : \E m \in migs : m.from = v /\ m.f = map[v]}

\* a HashMap keyed by the version a step leads to instead of the one it
\* starts from
MigrationMaps_by_target(T, migs) ==
    LET mine == {m \in migs : m.id = T}
        tos == {m.from + 1 : m \in mine}
    IN  {map \in [tos -> {m.f : m \in mine}] :
            \A v \in tos : RegisteredMigration(T, v - 1, map[v]) \in mine}

\* the HashMap<u32, MigrateFn> that migrate collects for T: one entry per
\* source version registered under T's identity (of several entries with the
\* same key the map keeps one)
MigrationMaps(T, migs) ==
    LET mine == {m \in migs : m.id = T}
        froms == {m.from : m \in mine}
    IN  {map \in [froms -> {m.f : m \in mine}] :
            \A v \in froms : RegisteredMigration(T, v, map[v]) \in mine}

(***************************************************************************)
(* ConfigData<T>                                                           *)
(***************************************************************************)
\* merge_defaults that inserts nothing
merge_defaults_skips(T, value) == value

\* merge_defaults with insert instead of entry().or_insert(): the default
\* replaces the value the target has
merge_defaults_overwrites(T, target) ==
    LET defaults_map == to_value(T, Default(T))
    IN  [k \in DOMAIN target \cup DOMAIN defaults_map |->
            IF k \in DOMAIN defaults_map THEN defaults_map[k] ELSE target[k]]

\* ConfigData::merge_defaults: every key of the defaults that the target
\* lacks is inserted (entry(k).or_insert(v))
merge_defaults(T, target) ==
    LET defaults_map == to_value(T, Default(T))
    IN  [k \in DOMAIN target \cup DOMAIN defaults_map |->
            IF k \in DOMAIN target THEN target[k] ELSE defaults_map[k]]

\* Value::Map(_) as opposed to a scalar Value
IsMap(value) == DOMAIN value # {"t", "n", "s"}

\* extract_version that falls back to version 1 instead of panicking
extract_version_or_default(value) ==
    IF ~IsMap(value)
    THEN [panic |-> FALSE, version |-> 1]
    ELSE IF "_version" \notin DOMAIN value
    THEN [panic |-> FALSE, version |-> 1]
    ELSE IF Accepts("U32", value["_version"])
         THEN [panic |-> FALSE, version |-> value["_version"].n]
         ELSE [panic |-> FALSE, version |-> 1]

\* ConfigData::extract_version: 1 when the map has no `_version`, a panic
\* when `_version` does not deserialize into a u32 or the value is no map
extract_version(value) ==
    IF ~IsMap(value)
    THEN [panic |-> TRUE, version |-> 0]
    ELSE IF "_version" \notin DOMAIN value
    THEN [panic |-> FALSE, version |-> 1]
    ELSE IF Accepts("U32", value["_version"])
         THEN [panic |-> FALSE, version |-> value["_version"].n]
         ELSE [panic |-> TRUE, version |-> 0]

Min(S) == CHOOSE x \in S : \A y \in S : x <= y

\* the element of a one-element set
The(S) == CHOOSE x \in S : TRUE

\* The `while current_version != T::VERSION` loop of ConfigData::migrate.
\* st = [value, current_version, applied, merges, iterations]; applied is
\* the sequence of source versions whose step ran, merges the set of
\* merge_defaults calls as [in, out].  An iteration at a version that has no
\* step only merges the defaults, which leaves a value that was just merged
\* unchanged, so a run of such versions is taken in one stride.
\* overflow_checks: `current_version += 1` at u32::MAX panics in a build with
\* overflow checks and wraps to 0 in a build without them.
RECURSIVE migrate_loop(_, _, _, _)
RECURSIVE migrate_iteration(_, _, _, _, _)

\* one iteration of the loop, merged being the value after merge_defaults
migrate_iteration(T, map, overflow_checks, st, merged) ==
    LET cv == st.current_version
        has_step == cv \in DOMAIN map
        step == IF has_step THEN ApplyStep(map[cv], merged)
                ELSE [ok |-> TRUE, value |-> merged]
        busy == DOMAIN map \cup {VERSION(T), U32_MAX}
        next == IF cv = U32_MAX THEN 0
                ELSE IF has_step THEN cv + 1
                ELSE Min({w \in busy : w > cv})
        stride == IF cv = U32_MAX THEN 1 ELSE next - cv
        st1 == [value |-> step.value,
                current_version |-> IF step.ok THEN next ELSE cv,
                applied |-> IF has_step THEN Append(st.applied, cv)
                            ELSE st.applied,
                merges |-> st.merges
                           \cup {[in |-> st.value, out |-> merged]}
                           \cup (IF stride > 1
                                 THEN {[in |-> merged, out |-> merged]}
                                 ELSE {}),
                iterations |-> st.iterations + stride]
    IN  IF ~step.ok
        THEN [status |-> "Err", st |-> st1]
        ELSE IF cv = U32_MAX /\ overflow_checks
        THEN [status |-> "panic", st |-> [st1 EXCEPT !.current_version = cv]]
        ELSE The({migrate_loop(T, map, overflow_checks, s) : s \in {st1}})

\* migrate whose loop returns an error when no step is registered for the
\* version it has reached
migrate_loop_requires_step(T, map, overflow_checks, st) ==
    IF st.current_version = VERSION(T)
    THEN [status |-> "Ok", st |-> st]
    ELSE IF st.current_version \notin DOMAIN map
    THEN [status |-> "Err", st |-> st]
    ELSE The({migrate_iteration(T, map, overflow_checks, st, merged) :
                merged \in {merge_defaults(T, st.value)}})

migrate_loop(T, map, overflow_checks, st) ==
    IF st.current_version = VERSION(T)
    THEN [status |-> "Ok", st |-> st]
    ELSE The({migrate_iteration(T, map, overflow_checks, st, merged) :
                merged \in {merge_defaults(T, st.value)}})

\* migrate that reports Ok(false) whatever the version was
migrate_finish_reports_false(T, value, ev, loop) ==
    IF ev.panic
    THEN [status |-> "panic", value |-> value, needs_migration |-> FALSE,
          from |-> 0, st |-> loop.st]
    ELSE [status |-> loop.status,
          value |-> IF loop.status = "Ok"
                    THEN Insert(loop.st.value, "_version", U32(VERSION(T)))
                    ELSE loop.st.value,
          needs_migration |-> FALSE,
          from |-> ev.version,
          st |-> loop.st]

\* migrate that reports Ok(true) whatever the version was
migrate_finish_reports_true(T, value, ev, loop) ==
    IF ev.panic
    THEN [status |-> "panic", value |-> value, needs_migration |-> FALSE,
          from |-> 0, st |-> loop.st]
    ELSE [status |-> loop.status,
          value |-> IF loop.status = "Ok"
                    THEN Insert(loop.st.value, "_version", U32(VERSION(T)))
                    ELSE loop.st.value,
          needs_migration |-> TRUE,
          from |-> ev.version,
          st |-> loop.st]

\* the end of ConfigData::migrate: `_version` is set when the loop is left
\* normally, and needs_migration is returned
migrate_finish(T, value, ev, loop) ==
    IF ev.panic
    THEN [status |-> "panic", value |-> value, needs_migration |-> FALSE,
          from |-> 0, st |-> loop.st]
    ELSE [status |-> loop.status,
          value |-> IF loop.status = "Ok"
                    THEN Insert(loop.st.value, "_version", U32(VERSION(T)))
                    ELSE loop.st.value,
          needs_migration |-> ev.version # VERSION(T),
          from |-> ev.version,
          st |-> loop.st]

\* ConfigData::migrate(&self, value): Ok(needs_migration) and the migrated
\* value with `_version` = VERSION, Err when a step fails, or a panic
migrate(T, map, overflow_checks, value) ==
    The({migrate_finish(T, value, ev, loop) :
            ev \in {extract_version(value)},
            loop \in {IF extract_version(value).panic
                      THEN [status |-> "panic",
                            st |-> [value |-> value, current_version |-> 0,
                                    applied |-> <<>>, merges |-> {},
                                    iterations |-> 0]]
                      ELSE migrate_loop(T, map, overflow_checks,
                             [value |-> value,
                              current_version |-> extract_version(value).version,
                              applied |-> <<>>, merges |-> {},
                              iterations |-> 0])}})

\* ConfigData<T>(Option<T>)
None == [loaded |-> FALSE, inst |-> NoInstance]
Some(inst) == [loaded |-> TRUE, inst |-> inst]

\* how the file system answers the writes of one save
SaveOutcomes == {"ok", "create_fails", "write_fails", "rename_fails"}

\* save that forgets to insert `_version`
save_without_version(T, holder, dir, io) ==
    LET destination == FILE_NAME(T)
        config == to_value(T, holder.inst)
        toml_string == toml_to_string_pretty(config)
        temp_path == with_extension(destination, "tmp")
        written == [dir EXCEPT ![temp_path] = toml_string]
        renamed == [p \in Paths |->
                      IF p = destination THEN written[temp_path]
                      ELSE IF p = temp_path THEN Absent
                      ELSE written[p]]
    IN  IF ~holder.loaded
        THEN [result |-> "panic", err |-> "", fs |-> dir]
        ELSE CASE io = "create_fails" ->
                    [result |-> "Err", err |-> "Io", fs |-> dir]
               [] io = "write_fails" ->
                    [result |-> "Err", err |-> "Io",
                     fs |-> [dir EXCEPT ![temp_path] = Partial]]
               [] io = "rename_fails" ->
                    [result |-> "Err", err |-> "Io", fs |-> written]
               [] io = "ok" ->
                    [result |-> "Ok", err |-> "", fs |-> renamed]

\* save that copies the temporary file to the destination and leaves it
save_leaves_temp_file(T, holder, dir, io) ==
    LET destination == FILE_NAME(T)
        config == Insert(to_value(T, holder.inst), "_version", U32(VERSION(T)))
        toml_string == toml_to_string_pretty(config)
        temp_path == with_extension(destination, "tmp")
        written == [dir EXCEPT ![temp_path] = toml_string]
        renamed == [p \in Paths |->
                      IF p = destination THEN written[temp_path]
                      ELSE written[p]]
    IN  IF ~holder.loaded
        THEN [result |-> "panic", err |-> "", fs |-> dir]
        ELSE CASE io = "create_fails" ->
                    [result |-> "Err", err |-> "Io", fs |-> dir]
               [] io = "write_fails" ->
                    [result |-> "Err", err |-> "Io",
                     fs |-> [dir EXCEPT ![temp_path] = Partial]]
               [] io = "rename_fails" ->
                    [result |-> "Err", err |-> "Io", fs |-> written]
               [] io = "ok" ->
                    [result |-> "Ok", err |-> "", fs |-> renamed]

\* ConfigData::save(&self, config_dir) in directory dir
save(T, holder, dir, io) ==
    LET destination == FILE_NAME(T)
        config == Insert(to_value(T, holder.inst), "_version", U32(VERSION(T)))
        toml_string == toml_to_string_pretty(config)
        temp_path == with_extension(destination, "tmp")
        written == [dir EXCEPT ![temp_path] = toml_string]
        renamed == [p \in Paths |->
                      IF p = destination THEN written[temp_path]
                      ELSE IF p = temp_path THEN Absent
                      ELSE written[p]]
    IN  IF ~holder.loaded
        THEN [result |-> "panic", err |-> "", fs |-> dir]
        ELSE CASE io = "create_fails" ->
                    [result |-> "Err", err |-> "Io", fs |-> dir]
               [] io = "write_fails" ->
                    [result |-> "Err", err |-> "Io",
                     fs |-> [dir EXCEPT ![temp_path] = Partial]]
               [] io = "rename_fails" ->
                    [result |-> "Err", err |-> "Io", fs |-> written]
               [] io = "ok" ->
                    [result |-> "Ok", err |-> "", fs |-> renamed]

\* what goes wrong in the file system during one load_from_dir: nothing,
\* fs::read_to_string fails, or one of the writes of save fails
Faults == {"none", "read"} \cup (SaveOutcomes \ {"ok"})

\* what the environment decides during one load_from_dir: the fault, whether
\* the build checks arithmetic overflow, and which HashMap migrate collects
Choices(T, migs) ==
    [fault : Faults, overflow_checks : BOOLEAN, map : MigrationMaps(T, migs)]

\* what one load_from_dir did: whether the file existed, the version migrate
\* extracted, its loop (see migrate_loop), how migrate ended, whether save ran
NoTrace ==
    [existed |-> FALSE, from |-> 0, needs_migration |-> FALSE,
     applied |-> <<>>, merges |-> {}, iterations |-> 0, migrate |-> "",
     saved |-> FALSE]

\* load_from_dir that stores and saves the record a failed step left
load_migrated_ignores_step_error(T, holder, dir, ch, exists, mig) ==
    LET trace == [existed |-> exists, from |-> mig.from,
                  needs_migration |-> mig.needs_migration,
                  applied |-> mig.st.applied, merges |-> mig.st.merges,
                  iterations |-> mig.st.iterations, migrate |-> mig.status,
                  saved |-> FALSE]
        de == deserialize(T, mig.value)
        stored == Some(de.inst)
        io == IF ch.fault \in SaveOutcomes THEN ch.fault ELSE "ok"
    IN  IF mig.status = "panic"
        THEN [result |-> "panic", err |-> "", holder |-> holder, fs |-> dir,
              trace |-> trace]
        ELSE IF mig.status = "Err"
        THEN The({[result |-> "Err", err |-> "Migration", holder |-> stored,
                   fs |-> sv.fs, trace |-> [trace EXCEPT !.saved = TRUE]] :
                     sv \in {save(T, stored, dir, "ok")}})
        ELSE IF ~de.ok
        THEN [result |-> "Err", err |-> "Deserialization", holder |-> holder,
              fs |-> dir, trace |-> trace]
        ELSE IF mig.needs_migration \/ ~exists
        THEN The({[result |-> sv.result, err |-> sv.err, holder |-> stored,
                   fs |-> sv.fs, trace |-> [trace EXCEPT !.saved = TRUE]] :
                     sv \in {save(T, stored, dir, io)}})
        ELSE [result |-> "Ok", err |-> "", holder |-> stored, fs |-> dir,
              trace |-> trace]

\* load_from_dir from the call of migrate on: mig is what migrate returned
\* for the value read from the file (or the defaults when there is none)
load_migrated(T, holder, dir, ch, exists, mig) ==
    LET trace == [existed |-> exists, from |-> mig.from,
                  needs_migration |-> mig.needs_migration,
                  applied |-> mig.st.applied, merges |-> mig.st.merges,
                  iterations |-> mig.st.iterations, migrate |-> mig.status,
                  saved |-> FALSE]
        de == deserialize(T, mig.value)
        stored == Some(de.inst)
        io == IF ch.fault \in SaveOutcomes THEN ch.fault ELSE "ok"
    IN  IF mig.status = "panic"
        THEN [result |-> "panic", err |-> "", holder |-> holder, fs |-> dir,
              trace |-> trace]
        ELSE IF mig.status = "Err"
        THEN [result |-> "Err", err |-> "Migration", holder |-> holder,
              fs |-> dir, trace |-> trace]
        ELSE IF ~de.ok
        THEN [result |-> "Err", err |-> "Deserialization", holder |-> holder,
              fs |-> dir, trace |-> trace]
        ELSE IF mig.needs_migration \/ ~exists
        THEN The({[result |-> sv.result, err |-> sv.err, holder |-> stored,
                   fs |-> sv.fs, trace |-> [trace EXCEPT !.saved = TRUE]] :
                     sv \in {save(T, stored, dir, io)}})
        ELSE [result |-> "Ok", err |-> "", holder |-> stored, fs |-> dir,
              trace |-> trace]

\* load_from_dir that takes the old value out of the holder before it reads
load_from_dir_takes_holder(T, holder, dir, ch) ==
    LET fs_path == FILE_NAME(T)
        exists == dir[fs_path].kind # "absent"
        parsed == toml_from_str(dir[fs_path])
        default_value == to_value(T, Default(T))
        value == IF exists THEN parsed.value
                 ELSE Insert(default_value, "_version", U32(VERSION(T)))
    IN  IF exists /\ ch.fault = "read"
        THEN [result |-> "Err", err |-> "Io", holder |-> None, fs |-> dir,
              trace |-> [NoTrace EXCEPT !.existed = TRUE]]
        ELSE IF exists /\ ~parsed.ok
        THEN [result |-> "Err", err |-> "TomlDeserialization",
              holder |-> None, fs |-> dir,
              trace |-> [NoTrace EXCEPT !.existed = TRUE]]
        ELSE The({load_migrated(T, None, dir, ch, exists, mig) :
                    mig \in {migrate(T, ch.map, ch.overflow_checks, value)}})

\* ConfigData::load_from_dir(&mut self, conf_dir)
load_from_dir(T, holder, dir, ch) ==
    LET fs_path == FILE_NAME(T)
        exists == dir[fs_path].kind # "absent"
        parsed == toml_from_str(dir[fs_path])
        default_value == to_value(T, Default(T))
        value == IF exists THEN parsed.value
                 ELSE Insert(default_value, "_version", U32(VERSION(T)))
    IN  IF exists /\ ch.fault = "read"
        THEN [result |-> "Err", err |-> "Io", holder |-> holder, fs |-> dir,
              trace |-> [NoTrace EXCEPT !.existed = TRUE]]
        ELSE IF exists /\ ~parsed.ok
        THEN [result |-> "Err", err |-> "TomlDeserialization",
              holder |-> holder, fs |-> dir,
              trace |-> [NoTrace EXCEPT !.existed = TRUE]]
        ELSE The({load_migrated(T, holder, dir, ch, exists, mig) :
                    mig \in {migrate(T, ch.map, ch.overflow_checks, value)}})

(***************************************************************************)
(* The closures passed to ConfigStore::update: f assigns one field (or     *)
(* none) and then returns Ok(()) or Err.                                   *)
(***************************************************************************)
NoMutator == [field |-> "", to |-> Payload(0, ""), ok |-> TRUE]

MutatorAssignments(T) ==
    CASE T = "MultiMigrationConfig" ->
            {<<"timeout", Payload(120, "")>>}
      [] T = "BasicConfig" ->
            {<<"enabled", Payload(0, "")>>}
      [] T = "UnregisteredConfig" ->
            {<<"field", Payload(0, "x")>>}
      [] T = "TmpNamedConfig" ->
            {<<"name", Payload(0, "renamed")>>}

Mutators(T) ==
    {[field |-> a[1], to |-> a[2], ok |-> b] :
        a \in MutatorAssignments(T), b \in BOOLEAN}
    \cup {[NoMutator EXCEPT !.ok = b] : b \in BOOLEAN}

\* f(inner): the instance as the closure leaves it
Apply(f, inst) ==
    IF f.field = "" THEN inst ELSE [inst EXCEPT ![f.field] = f.to]

(***************************************************************************)
(* ConfigStore                                                             *)
(***************************************************************************)
NoFile == <<"", "">>

\* the record of one call: its result, the error it carries, and what it did
Call(op, id, result, err) ==
    [op |-> op, id |-> id, result |-> result, err |-> err,
     payload |-> NoFile,      \* the FILE_NAME an UnregisteredConfig carries
     value |-> NoInstance,    \* what get returned
     called |-> FALSE,        \* the closure of update was invoked
     f |-> NoMutator,         \* the closure of update
     before |-> None,         \* the holder when load or update was called
     fs_before |-> fs,        \* the directory when the call was made
     trace |-> NoTrace,       \* what load_from_dir did
     visited |-> <<>>,        \* the holders load_all visited, in order
     after_failed_update |-> FALSE]
                              \* load: the call before it was an update of
                              \* the same type whose closure returned Err

\* an UnregisteredConfig error that does not carry the file name
Unregistered_without_name(op, T) ==
    Call(op, T, "Err", "UnregisteredConfig")

\* .ok_or(Error::UnregisteredConfig(T::FILE_NAME.to_string()))?
Unregistered(op, T) ==
    [Call(op, T, "Err", "UnregisteredConfig") EXCEPT !.payload = FILE_NAME(T)]

\* ConfigStore::init(conf_dir): one empty holder per registered type
init ==
    /\ UNCHANGED file_vars
    /\ /\ configs' = [T \in registered |-> None]
       /\ last' = Call("init", "", "Ok", "")
       /\ UNCHANGED <<fs, registered, migrations>>

\* ConfigStore::get::<T>()
get(T) ==
    /\ UNCHANGED file_vars
    /\ /\ last' = IF T \notin DOMAIN configs
                  THEN Unregistered("get", T)
                  ELSE IF ~configs[T].loaded
                  THEN Call("get", T, "panic", "")
                  ELSE [Call("get", T, "Ok", "") EXCEPT !.value = configs[T].inst]
       /\ UNCHANGED <<fs, configs, registered, migrations>>

\* load that leaves a holder alone once it is loaded
load_keeps_loaded(T) ==
    /\ UNCHANGED file_vars
    /\ IF T \notin DOMAIN configs
       THEN /\ last' = Unregistered("load", T)
            /\ UNCHANGED <<fs, configs, registered, migrations>>
       ELSE \E ch \in Choices(T, migrations) :
            \E r \in {IF configs[T].loaded
                      THEN [result |-> "Ok", err |-> "", holder |-> configs[T],
                            fs |-> fs, trace |-> NoTrace]
                      ELSE load_from_dir(T, configs[T], fs, ch)} :
               /\ configs' = [configs EXCEPT ![T] = r.holder]
               /\ fs' = r.fs
               /\ last' = [Call("load", T, r.result, r.err)
                              EXCEPT !.trace = r.trace, !.before = configs[T],
                                     !.after_failed_update =
                                         (last.op = "update" /\ last.id = T
                                          /\ last.err = "Closure")]
               /\ UNCHANGED <<registered, migrations>>

\* ConfigStore::load::<T>()
load(T) ==
    /\ UNCHANGED file_vars
    /\ IF T \notin DOMAIN configs
       THEN /\ last' = Unregistered("load", T)
            /\ UNCHANGED <<fs, configs, registered, migrations>>
       ELSE \E ch \in Choices(T, migrations) :
            \E r \in {load_from_dir(T, configs[T], fs, ch)} :
               /\ configs' = [configs EXCEPT ![T] = r.holder]
               /\ fs' = r.fs
               /\ last' = [Call("load", T, r.result, r.err)
                              EXCEPT !.trace = r.trace, !.before = configs[T],
                                     !.after_failed_update =
                                         (last.op = "update" /\ last.id = T
                                          /\ last.err = "Closure")]
               /\ UNCHANGED <<registered, migrations>>

\* the loop of ConfigStore::load_all over the holders still to visit; r is
\* what load_from_dir returned for the first of them
RECURSIVE load_all_from(_, _, _, _, _)
RECURSIVE load_all_step(_, _, _, _, _)

\* a pass that goes on with the remaining holders after a failure and
\* reports the first failure at its end
load_all_step_goes_on(order, visited, cfgs, chs, r) ==
    LET T == Head(order)
        cfgs1 == [cfgs EXCEPT ![T] = r.holder]
    IN  IF r.result # "Ok"
        THEN The({[result |-> r.result, err |-> r.err, configs |-> rest.configs,
                   fs |-> rest.fs, visited |-> Append(visited, T),
                   trace |-> r.trace] :
                     rest \in {load_all_from(Tail(order), Append(visited, T),
                                             cfgs1, r.fs, chs)}})
        ELSE load_all_from(Tail(order), Append(visited, T), cfgs1, r.fs, chs)

load_all_step(order, visited, cfgs, chs, r) ==
    LET T == Head(order)
        cfgs1 == [cfgs EXCEPT ![T] = r.holder]
    IN  IF r.result # "Ok"
        THEN [result |-> r.result, err |-> r.err, configs |-> cfgs1,
              fs |-> r.fs, visited |-> Append(visited, T), trace |-> r.trace]
        ELSE load_all_from(Tail(order), Append(visited, T), cfgs1, r.fs, chs)

load_all_from(order, visited, cfgs, dir, chs) ==
    IF order = <<>>
    THEN [result |-> "Ok", err |-> "", configs |-> cfgs, fs |-> dir,
          visited |-> visited, trace |-> NoTrace]
    ELSE The({load_all_step(order, visited, cfgs, chs, r) :
                r \in {load_from_dir(Head(order), cfgs[Head(order)], dir,
                                     chs[Head(order)])}})

\* the orders in which a HashMap holding the keys S may be iterated
Orders(S) ==
    {o \in [1..Cardinality(S) -> S] : \A i, j \in DOMAIN o : o[i] = o[j] => i = j}

\* ConfigStore::load_all().  The pass stops at the first load that fails, so
\* the environment's decision is which holder meets the fault, if any.
load_all ==
    /\ UNCHANGED file_vars
    /\ \E order \in Orders(DOMAIN configs) :
       \E faulty \in DOMAIN configs, fault \in Faults, oc \in BOOLEAN :
       \E maps \in [DOMAIN configs ->
                       UNION {MigrationMaps(T, migrations) : T \in DOMAIN configs}] :
           /\ \A T \in DOMAIN configs : maps[T] \in MigrationMaps(T, migrations)
           /\ LET chs == [T \in DOMAIN configs |->
                            [fault |-> IF T = faulty THEN fault ELSE "none",
                             overflow_checks |-> oc, map |-> maps[T]]]
              IN  \E r \in {load_all_from(order, <<>>, configs, fs, chs)} :
                  /\ configs' = r.configs
                  /\ fs' = r.fs
                  /\ last' = [Call("load_all",
                                   IF r.result = "Ok" THEN ""
                                   ELSE r.visited[Len(r.visited)],
                                   r.result, r.err)
                                 EXCEPT !.visited = r.visited, !.trace = r.trace]
                  /\ UNCHANGED <<registered, migrations>>

\* update that saves before it looks at what the closure returned
update_call_saves_first(T, f, holder, dir, io) ==
    LET inner == Some(Apply(f, holder.inst))
    IN  The({[result |-> IF f.ok THEN sv.result ELSE "Err",
              err |-> IF f.ok THEN sv.err ELSE "Closure",
              holder |-> inner, fs |-> sv.fs, saved |-> TRUE] :
                sv \in {save(T, inner, dir, io)}})

\* update that puts the old value back when the closure returns Err
update_call_rolls_back(T, f, holder, dir, io) ==
    LET inner == Some(Apply(f, holder.inst))
    IN  IF ~f.ok
        THEN [result |-> "Err", err |-> "Closure", holder |-> holder,
              fs |-> dir, saved |-> FALSE]
        ELSE The({[result |-> sv.result, err |-> sv.err, holder |-> inner,
                   fs |-> sv.fs, saved |-> TRUE] :
                     sv \in {save(T, inner, dir, io)}})

\* ConfigStore::update from `f(inner)?` on, for a registered and loaded T:
\* the closure works on the held value in place; save runs only when the
\* closure returned Ok(())
update_call(T, f, holder, dir, io) ==
    LET inner == Some(Apply(f, holder.inst))
    IN  IF ~f.ok
        THEN [result |-> "Err", err |-> "Closure", holder |-> inner,
              fs |-> dir, saved |-> FALSE]
        ELSE The({[result |-> sv.result, err |-> sv.err, holder |-> inner,
                   fs |-> sv.fs, saved |-> TRUE] :
                     sv \in {save(T, inner, dir, io)}})

\* update whose inner_mut puts the default value in an empty holder
update_fills_empty_holder(T, f) ==
    /\ UNCHANGED file_vars
    /\ IF T \notin DOMAIN configs
       THEN /\ last' = [Unregistered("update", T) EXCEPT !.f = f]
            /\ UNCHANGED <<fs, configs, registered, migrations>>
       ELSE \E io \in SaveOutcomes :
            \E held \in {IF configs[T].loaded THEN configs[T]
                          ELSE Some(Default(T))} :
            \E r \in {update_call(T, f, held, fs, io)} :
               /\ configs' = [configs EXCEPT ![T] = r.holder]
               /\ fs' = r.fs
               /\ last' = [Call("update", T, r.result, r.err)
                              EXCEPT !.f = f, !.called = TRUE,
                                     !.before = configs[T],
                                     !.trace = [NoTrace EXCEPT !.saved = r.saved]]
               /\ UNCHANGED <<registered, migrations>>

\* ConfigStore::update::<T, F>(f)
update(T, f) ==
    /\ UNCHANGED file_vars
    /\ IF T \notin DOMAIN configs
       THEN /\ last' = [Unregistered("update", T) EXCEPT !.f = f]
            /\ UNCHANGED <<fs, configs, registered, migrations>>
       ELSE IF ~configs[T].loaded
       THEN /\ last' = [Call("update", T, "panic", "") EXCEPT !.f = f]
            /\ UNCHANGED <<fs, configs, registered, migrations>>
       ELSE \E io \in SaveOutcomes :
            \E r \in {update_call(T, f, configs[T], fs, io)} :
               /\ configs' = [configs EXCEPT ![T] = r.holder]
               /\ fs' = r.fs
               /\ last' = [Call("update", T, r.result, r.err)
                              EXCEPT !.f = f, !.called = TRUE,
                                     !.before = configs[T],
                                     !.trace = [NoTrace EXCEPT !.saved = r.saved]]
               /\ UNCHANGED <<registered, migrations>>

(***************************************************************************)
(* Several processes on one directory.  A directory entry names an inode,  *)
(* a rename rebinds the name, an open file and a lock belong to the inode  *)
(* that was opened.  A content is a sequence of chunks <<writer, part>>.   *)
(***************************************************************************)
Procs == {"p1", "p2", "p3"}

Chunk(by, part) == <<by, part>>

\* the zero bytes read from a part of a file nothing was written to
Hole == Chunk("", 0)

\* the content process p passes to its write (AtomicFile::write's contents,
\* save's toml_string)
Bytes(p) == [k \in 1..MaxChunks |-> Chunk(p, k)]

\* the content of a file that is there before any of the processes starts
Old == [k \in 1..MaxChunks |-> Chunk("old", k)]

\* the path the processes work on, and the names of the temporary files:
\* NamedTempFile::new_in picks a fresh name for every call, save derives one
\* name from the destination
Target == <<"basic", "toml">>

TempName(p) == <<".tmp", p>>

Names == {Target, with_extension(Target, "tmp")} \cup {TempName(p) : p \in Procs}

\* a process that has not called anything
Idle ==
    [op |-> "", pc |-> "idle", fd |-> 0, found |-> 0, off |-> 0,
     result |-> "", err |-> "", at |-> "", ret |-> <<>>]

NoEntries == [n \in Names |-> 0]

\* the directory is not in use
FilesUnused ==
    /\ dirents = NoEntries
    /\ inodes = <<>>
    /\ flocks = {}
    /\ procs = [p \in Procs |-> Idle]

(***************************************************************************)
(* The files found in the directory when the process starts.               *)
(***************************************************************************)
Integer(n) == Scalar("integer", n, "")
TomlString(s) == Scalar("string", 0, s)
Boolean(b) == Scalar("boolean", IF b THEN 1 ELSE 0, "")

\* the values a user-written file may give to each key
FileCandidates(T) ==
    CASE T = "MultiMigrationConfig" ->
            [_version |-> {Integer(v) : v \in 1..MaxFileVersion}
                          \cup {TomlString("two")},
             name |-> {TomlString("legacy_config")},
             timeout |-> {Integer(120), TomlString("soon")},
             max_retries |-> {Integer(7)}]
      [] T = "BasicConfig" ->
            [_version |-> {Integer(1)},
             name |-> {TomlString("preexisting")},
             enabled |-> {Boolean(FALSE)}]

\* the keys every user-written file has
RequiredKeys(T) ==
    CASE T = "MultiMigrationConfig" -> {"name"}
      [] T = "BasicConfig" -> {}

\* the tables over the keys in keys, each key with one of its candidates
RECURSIVE TablesOver(_, _)
TablesOver(cand, keys) ==
    IF keys = {} THEN {EmptyMap}
    ELSE LET k == CHOOSE x \in keys : TRUE
         IN  {Insert(t, k, v) : t \in TablesOver(cand, keys \ {k}), v \in cand[k]}

UserFiles(T) ==
    LET cand == FileCandidates(T)
    IN  {Text(tbl, "user") :
            tbl \in UNION {TablesOver(cand, keys \cup RequiredKeys(T)) :
                             keys \in SUBSET DOMAIN cand}}

InitialFiles(T) ==
    CASE T = "MultiMigrationConfig" -> {Absent, Invalid} \cup UserFiles(T)
      [] T = "BasicConfig" -> {Absent} \cup UserFiles(T)
      [] T = "UnregisteredConfig" -> {Absent}

\* the directory: every schema's file is one of its initial files, no
\* temporary file is present
DirWith(files) ==
    [p \in Paths |->
        IF \E T \in ConfigTypes : p = FILE_NAME(T)
        THEN files[CHOOSE T \in ConfigTypes : p = FILE_NAME(T)]
        ELSE Absent]

\* the inventories a process may be built with: one registered schema
Inventories == {{"MultiMigrationConfig"}, {"BasicConfig"}}

\* the files of the registered schemas are among their initial files, no
\* other file is present
InitialDirs(reg) ==
    {DirWith([T \in ConfigTypes |->
                CASE T = "MultiMigrationConfig" -> a
                  [] T = "BasicConfig" -> b
                  [] T = "UnregisteredConfig" -> Absent
                  [] T = "TmpNamedConfig" -> Absent]) :
        a \in IF "MultiMigrationConfig" \in reg
              THEN InitialFiles("MultiMigrationConfig") ELSE {Absent},
        b \in IF "BasicConfig" \in reg
              THEN InitialFiles("BasicConfig") ELSE {Absent}}

\* the migrations submitted together with the registered schemas
InitialMigrations(reg) ==
    IF "MultiMigrationConfig" \in reg THEN Registries ELSE {{}}

Init ==
    /\ registered \in Inventories
    /\ fs \in InitialDirs(registered)
    /\ configs = [T \in registered |-> None]
    /\ migrations \in InitialMigrations(registered)
    /\ last = Call("init", "", "Ok", "")
    /\ FilesUnused

\* the types the application calls the store with: the registered ones and
\* one it forgot to register
CallTypes == DOMAIN configs \cup {"UnregisteredConfig"}

Next ==
    \/ init
    \/ \E T \in CallTypes : get(T)
    \/ \E T \in CallTypes : load(T)
    \/ load_all
    \/ \E T \in CallTypes : \E f \in Mutators(T) : update(T, f)

Spec == Init /\ [][Next]_vars

(***************************************************************************)
(* Files and locks.                                                        *)
(***************************************************************************)
\* the content of the file a name is bound to
ContentOf(name) == inodes[dirents[name]]

\* a new inode with the given content; its number is Len(inodes) + 1
NewInode(content) == Append(inodes, content)

\* write(2) of one chunk at offset k of a content
WriteAt(content, k, c) ==
    [i \in 1..(IF k > Len(content) THEN k ELSE Len(content)) |->
        IF i = k THEN c ELSE IF i <= Len(content) THEN content[i] ELSE Hole]

\* OpenOptions::open: std rejects create(true) without write or append
\* access with InvalidInput before it looks at the path
open_options(read, write, create) ==
    IF create /\ ~write THEN "InvalidInput" ELSE "ok"

\* flock: an exclusive lock needs the inode free of other holders' locks, a
\* shared lock needs it free of other holders' exclusive locks
CanLock(ino, p, mode) ==
    \A l \in flocks :
        (l.ino = ino /\ l.by # p) => (mode = "shared" /\ l.mode = "shared")

\* the locks of p are gone (its files are closed)
Released(p) == {l \in flocks : l.by # p}

\* p returns from its call
Returned(p, result, err, at) ==
    [procs[p] EXCEPT !.pc = "done", !.result = result, !.err = err, !.at = at]

\* the directory without p's temporary file (NamedTempFile's destructor)
WithoutTemp(p) == [dirents EXCEPT ![TempName(p)] = 0]

\* an error return of AtomicFile::write after the lock was taken: `?` leaves
\* the function, tmp is dropped (the file removed), then _lock
write_fails(p, at) ==
    /\ procs' = [procs EXCEPT ![p] = Returned(p, "Err", "Io", at)]
    /\ dirents' = WithoutTemp(p)
    /\ flocks' = Released(p)
    /\ UNCHANGED inodes

(***************************************************************************)
(* AtomicFile (src/src/atomic.rs), one call per process on Target.         *)
(***************************************************************************)
\* FileLock::lock, the open: read(true).write(true).create(true)
FileLock_open(p) ==
    /\ procs[p].pc = "idle"
    /\ UNCHANGED store_vars
    /\ UNCHANGED flocks
    /\ \/ /\ open_options(TRUE, TRUE, TRUE) = "ok"
          /\ IF dirents[Target] = 0
             THEN /\ inodes' = NewInode(<<>>)
                  /\ dirents' = [dirents EXCEPT ![Target] = Len(inodes) + 1]
             ELSE UNCHANGED <<inodes, dirents>>
          /\ procs' = [procs EXCEPT ![p] =
                          [@ EXCEPT !.op = "write", !.pc = "lock",
                                    !.found = dirents[Target],
                                    !.fd = dirents'[Target]]]
       \/ /\ procs' = [procs EXCEPT ![p] =
                          [Returned(p, "Err", "Io", "open")
                              EXCEPT !.op = "write",
                                     !.found = dirents[Target]]]
          /\ UNCHANGED <<inodes, dirents>>

\* FileLock::lock: file.lock_exclusive()? blocks while the inode is locked
lock_exclusive(p) ==
    /\ procs[p].pc = "lock"
    /\ UNCHANGED store_vars
    /\ UNCHANGED <<inodes, dirents>>
    /\ \/ /\ CanLock(procs[p].fd, p, "exclusive")
          /\ flocks' = flocks \cup
                 {[ino |-> procs[p].fd, by |-> p, mode |-> "exclusive"]}
          /\ procs' = [procs EXCEPT ![p].pc = "tmp"]
       \/ /\ procs' = [procs EXCEPT ![p] = Returned(p, "Err", "Io", "lock")]
          /\ UNCHANGED flocks

\* NamedTempFile::new_in(dir)?
NamedTempFile_new_in(p) ==
    /\ procs[p].pc = "tmp"
    /\ UNCHANGED store_vars
    /\ \/ /\ inodes' = NewInode(<<>>)
          /\ dirents' = [dirents EXCEPT ![TempName(p)] = Len(inodes) + 1]
          /\ procs' = [procs EXCEPT ![p].pc = "write", ![p].off = 0]
          /\ UNCHANGED flocks
       \/ write_fails(p, "create")

\* tmp.write_all(contents.as_bytes())?, a chunk at a time
write_all(p) ==
    /\ procs[p].pc = "write"
    /\ UNCHANGED store_vars
    /\ \/ /\ inodes' = [inodes EXCEPT ![dirents[TempName(p)]] =
                           WriteAt(@, procs[p].off + 1,
                                   Bytes(p)[procs[p].off + 1])]
          /\ procs' = [procs EXCEPT
                          ![p].off = @ + 1,
                          ![p].pc = IF procs[p].off + 1 = MaxChunks
                                    THEN "sync" ELSE "write"]
          /\ UNCHANGED <<dirents, flocks>>
       \/ write_fails(p, "write")

\* a sync after which the lock is already given up
sync_all_releases_lock(p) ==
    /\ procs[p].pc = "sync"
    /\ UNCHANGED store_vars
    /\ \/ /\ procs' = [procs EXCEPT ![p].pc = "persist"]
          /\ flocks' = Released(p)
          /\ UNCHANGED <<inodes, dirents>>
       \/ write_fails(p, "sync")

\* tmp.flush()?; tmp.as_file().sync_all()?
sync_all(p) ==
    /\ procs[p].pc = "sync"
    /\ UNCHANGED store_vars
    /\ \/ /\ procs' = [procs EXCEPT ![p].pc = "persist"]
          /\ UNCHANGED <<inodes, dirents, flocks>>
       \/ write_fails(p, "sync")

\* persist that copies the temporary file's content into the target's inode
persist_copies(p) ==
    /\ procs[p].pc = "persist"
    /\ UNCHANGED store_vars
    /\ \/ /\ inodes' = [inodes EXCEPT ![dirents[Target]] =
                           ContentOf(TempName(p))]
          /\ procs' = [procs EXCEPT ![p].pc = "unlock"]
          /\ UNCHANGED <<dirents, flocks>>
       \/ write_fails(p, "rename")

\* tmp.persist(&self.path)?: rename(2) of the temporary file onto the path
persist(p) ==
    /\ procs[p].pc = "persist"
    /\ UNCHANGED store_vars
    /\ \/ /\ dirents' = [dirents EXCEPT ![Target] = dirents[TempName(p)],
                                        ![TempName(p)] = 0]
          /\ procs' = [procs EXCEPT ![p].pc = "unlock"]
          /\ UNCHANGED <<inodes, flocks>>
       \/ write_fails(p, "rename")

\* a return that keeps the lock (the file of FileLock is leaked)
drop_lock_keeps_lock(p) ==
    /\ procs[p].pc = "unlock"
    /\ UNCHANGED store_vars
    /\ procs' = [procs EXCEPT ![p] = Returned(p, "Ok", "", "")]
    /\ UNCHANGED <<inodes, dirents, flocks>>

\* Ok(()): _lock goes out of scope
drop_lock(p) ==
    /\ procs[p].pc = "unlock"
    /\ UNCHANGED store_vars
    /\ flocks' = Released(p)
    /\ procs' = [procs EXCEPT ![p] = Returned(p, "Ok", "", "")]
    /\ UNCHANGED <<inodes, dirents>>

\* AtomicFile::read: the open is read(true).create(true); when the open
\* succeeds the file is created if absent, locked shared and read to its end
read(p) ==
    /\ procs[p].pc = "idle"
    /\ UNCHANGED store_vars
    /\ UNCHANGED flocks
    /\ \E o \in {open_options(TRUE, FALSE, TRUE)} :
          IF o # "ok"
          THEN /\ procs' = [procs EXCEPT ![p] =
                              [Returned(p, "Err", o, "open")
                                  EXCEPT !.op = "read",
                                         !.found = dirents[Target]]]
               /\ UNCHANGED <<inodes, dirents>>
          ELSE /\ IF dirents[Target] = 0
                  THEN /\ inodes' = NewInode(<<>>)
                       /\ dirents' = [dirents EXCEPT
                                         ![Target] = Len(inodes) + 1]
                  ELSE UNCHANGED <<inodes, dirents>>
               /\ CanLock(dirents'[Target], p, "shared")
               /\ procs' = [procs EXCEPT ![p] =
                              [Returned(p, "Ok", "", "")
                                  EXCEPT !.op = "read",
                                         !.found = dirents[Target],
                                         !.ret = inodes'[dirents'[Target]]]]

\* the process dies inside its call: its files are closed and its locks
\* released by the system, no destructor runs
crash(p) ==
    /\ procs[p].pc \notin {"idle", "done", "crashed"}
    /\ UNCHANGED store_vars
    /\ procs' = [procs EXCEPT ![p].pc = "crashed", ![p].at = procs[p].pc]
    /\ flocks' = Released(p)
    /\ UNCHANGED <<inodes, dirents>>

\* the store side is not used while the file primitives are exercised
StoreUnused ==
    /\ registered = {}
    /\ migrations = {}
    /\ configs = << >>
    /\ fs = [p \in Paths |-> Absent]
    /\ last = Call("init", "", "Ok", "")

\* the target is absent or holds Old
TargetStates ==
    {[d |-> NoEntries, i |-> <<>>],
     [d |-> [NoEntries EXCEPT ![Target] = 1], i |-> <<Old>>]}

AtomicInit ==
    /\ StoreUnused
    /\ \E t \in TargetStates : dirents = t.d /\ inodes = t.i
    /\ flocks = {}
    /\ procs = [p \in Procs |-> Idle]

AtomicNext ==
    \/ \E p \in Procs : FileLock_open(p)
    \/ \E p \in Procs : lock_exclusive(p)
    \/ \E p \in Procs : NamedTempFile_new_in(p)
    \/ \E p \in Procs : write_all(p)
    \/ \E p \in Procs : sync_all(p)
    \/ \E p \in Procs : persist(p)
    \/ \E p \in Procs : drop_lock(p)
    \/ \E p \in Procs : read(p)
    \/ \E p \in Procs : crash(p)


(***************************************************************************)
(* A store with two registered schemas, for the passes of load_all.        *)
(***************************************************************************)
\* the files the two schemas start with: none, one that is no TOML, a
\* version 1 file and a complete current one
LoadAllFiles(T) ==
    CASE T = "MultiMigrationConfig" ->
            {Absent, Invalid,
             Text([_version |-> Integer(1),
                   name |-> TomlString("legacy_config")], "user"),
             Text([_version |-> Integer(3),
                   name |-> TomlString("legacy_config"),
                   timeout |-> Integer(120),
                   max_retries |-> Integer(7)], "user")}
      [] T = "BasicConfig" ->
            {Absent, Text([name |-> TomlString("preexisting")], "user")}
      [] T = "UnregisteredConfig" -> {Absent}

LoadAllInit ==
    /\ registered = {"MultiMigrationConfig", "BasicConfig"}
    /\ fs \in {DirWith([T \in ConfigTypes |->
                          CASE T = "MultiMigrationConfig" -> a
                            [] T = "BasicConfig" -> b
                            [] T = "UnregisteredConfig" -> Absent
                            [] T = "TmpNamedConfig" -> Absent]) :
                  a \in LoadAllFiles("MultiMigrationConfig"),
                  b \in LoadAllFiles("BasicConfig")}
    /\ configs = [T \in registered |-> None]
    /\ migrations \in {TestRegistry, FailFirstRegistry}
    /\ last = Call("init", "", "Ok", "")
    /\ FilesUnused

LoadAllNext ==
    \/ \E T \in DOMAIN configs : load(T)
    \/ load_all

LoadAllSpec == LoadAllInit /\ [][LoadAllNext]_vars

(***************************************************************************)
(* A store with two registered schemas whose file names differ only in the *)
(* extension, one of them "tmp".                                           *)
(***************************************************************************)
NamesInit ==
    /\ registered = {"BasicConfig", "TmpNamedConfig"}
    /\ fs \in {DirWith([T \in ConfigTypes |->
                          CASE T = "BasicConfig" -> a
                            [] T = "TmpNamedConfig" -> b
                            [] OTHER -> Absent]) :
                  a \in {Absent, Text([name |-> TomlString("preexisting")],
                                      "user")},
                  b \in {Absent, Text([name |-> TomlString("kept")], "user")}}
    /\ configs = [T \in registered |-> None]
    /\ migrations = {}
    /\ last = Call("init", "", "Ok", "")
    /\ FilesUnused

NamesNext ==
    \/ \E T \in DOMAIN configs : get(T)
    \/ \E T \in DOMAIN configs : load(T)
    \/ \E T \in DOMAIN configs : \E f \in Mutators(T) : update(T, f)

NamesSpec == NamesInit /\ [][NamesNext]_vars

(***************************************************************************)
(* A store for MultiMigrationConfig with the crowded registry.             *)
(***************************************************************************)
RegistryInit ==
    /\ registered = {"MultiMigrationConfig"}
    /\ fs \in {DirWith([T \in ConfigTypes |->
                          IF T = "MultiMigrationConfig" THEN a ELSE Absent]) :
                  a \in LoadAllFiles("MultiMigrationConfig")
                        \cup {Text([_version |-> Integer(2),
                                    name |-> TomlString("legacy_config"),
                                    timeout |-> Integer(120)], "user")}}
    /\ configs = [T \in registered |-> None]
    /\ migrations = CrowdedRegistry
    /\ last = Call("init", "", "Ok", "")
    /\ FilesUnused

RegistryNext ==
    \/ \E T \in DOMAIN configs : get(T)
    \/ \E T \in DOMAIN configs : load(T)
    \/ \E T \in DOMAIN configs : \E f \in Mutators(T) : update(T, f)

RegistrySpec == RegistryInit /\ [][RegistryNext]_vars

AtomicSpec == AtomicInit /\ [][AtomicNext]_vars

(***************************************************************************)
(* AtomicFile calls that run to their end: no process dies, no system call *)
(* fails, and a process that can take a step eventually takes one.         *)
(***************************************************************************)
\* no process has died and no system call has failed
NoFailure ==
    \A p \in Procs : procs[p].pc # "crashed" /\ procs[p].err # "Io"

\* the statement process p executes next
StepOf(p) ==
    \/ FileLock_open(p)
    \/ lock_exclusive(p)
    \/ NamedTempFile_new_in(p)
    \/ write_all(p)
    \/ sync_all(p)
    \/ persist(p)
    \/ drop_lock(p)

\* the processes that write; the others read
Writers == {"p1", "p2"}

LiveInit == AtomicInit

LiveNext ==
    \/ \E p \in Writers : FileLock_open(p) /\ NoFailure'
    \/ \E p \in Writers : lock_exclusive(p) /\ NoFailure'
    \/ \E p \in Writers : NamedTempFile_new_in(p) /\ NoFailure'
    \/ \E p \in Writers : write_all(p) /\ NoFailure'
    \/ \E p \in Writers : sync_all(p) /\ NoFailure'
    \/ \E p \in Writers : persist(p) /\ NoFailure'
    \/ \E p \in Writers : drop_lock(p)
    \/ \E p \in Procs \ Writers : read(p)

\* a process that has started a call is scheduled again and again
LiveSpec ==
    /\ LiveInit
    /\ [][LiveNext]_vars
    /\ \A p \in Writers :
          WF_vars(procs[p].pc # "idle" /\ StepOf(p) /\ NoFailure')

(***************************************************************************)
(* ConfigData::save run by several processes on one configuration file:    *)
(* the three file system calls of config.rs:355-357.                       *)
(***************************************************************************)
\* temp_path = destination.with_extension("tmp"), the same for every process
TempPath == with_extension(Target, "tmp")

\* std::fs::write(&temp_path, ..), the open: File::create makes the file or
\* truncates the one that is there
fs_write_create(p) ==
    /\ procs[p].pc = "idle"
    /\ UNCHANGED store_vars
    /\ UNCHANGED flocks
    /\ \/ /\ IF dirents[TempPath] = 0
             THEN /\ inodes' = NewInode(<<>>)
                  /\ dirents' = [dirents EXCEPT ![TempPath] = Len(inodes) + 1]
             ELSE /\ inodes' = [inodes EXCEPT ![dirents[TempPath]] = <<>>]
                  /\ UNCHANGED dirents
          /\ procs' = [procs EXCEPT ![p] =
                          [@ EXCEPT !.op = "save", !.pc = "s_write",
                                    !.found = dirents[Target],
                                    !.fd = dirents'[TempPath], !.off = 0]]
       \/ /\ procs' = [procs EXCEPT ![p] =
                          [Returned(p, "Err", "Io", "create")
                              EXCEPT !.op = "save",
                                     !.found = dirents[Target]]]
          /\ UNCHANGED <<inodes, dirents>>

\* std::fs::write, the write_all on the file it opened, a chunk at a time
fs_write_all(p) ==
    /\ procs[p].pc = "s_write"
    /\ UNCHANGED store_vars
    /\ UNCHANGED <<dirents, flocks>>
    /\ \/ /\ inodes' = [inodes EXCEPT ![procs[p].fd] =
                           WriteAt(@, procs[p].off + 1,
                                   Bytes(p)[procs[p].off + 1])]
          /\ procs' = [procs EXCEPT
                          ![p].off = @ + 1,
                          ![p].pc = IF procs[p].off + 1 = MaxChunks
                                    THEN "s_rename" ELSE "s_write"]
       \/ /\ procs' = [procs EXCEPT ![p] = Returned(p, "Err", "Io", "write")]
          /\ UNCHANGED inodes

\* std::fs::rename(&temp_path, &destination)?; Ok(())
fs_rename(p) ==
    /\ procs[p].pc = "s_rename"
    /\ UNCHANGED store_vars
    /\ UNCHANGED <<inodes, flocks>>
    /\ IF dirents[TempPath] = 0
       THEN /\ procs' = [procs EXCEPT ![p] = Returned(p, "Err", "Io", "rename")]
            /\ UNCHANGED dirents
       ELSE \/ /\ dirents' = [dirents EXCEPT ![Target] = dirents[TempPath],
                                             ![TempPath] = 0]
               /\ procs' = [procs EXCEPT ![p] = Returned(p, "Ok", "", "")]
            \/ /\ procs' = [procs EXCEPT ![p] =
                               Returned(p, "Err", "Io", "rename")]
               /\ UNCHANGED dirents

\* the processes that save
Savers == {"p1", "p2"}

SaveInit == AtomicInit

SaveNext ==
    \/ \E p \in Savers : fs_write_create(p)
    \/ \E p \in Savers : fs_write_all(p)
    \/ \E p \in Savers : fs_rename(p)
    \/ \E p \in Savers : crash(p)

SaveSpec == SaveInit /\ [][SaveNext]_vars

(***************************************************************************)
(* Properties.  In a state, `last` is the call that led to it: last.id is  *)
(* the type it was made for, last.before and last.fs_before the holder and *)
(* the directory it found.                                                 *)
(***************************************************************************)
\* the file of T in directory dir
FileOf(T, dir) == dir[FILE_NAME(T)]

\* the record the file of T decodes to
RecordOf(T, dir) == toml_from_str(FileOf(T, dir)).value

\* the file of T is a TOML document whose table has `_version` = VERSION
HasCurrentVersionKey(T, dir) ==
    /\ FileOf(T, dir).kind = "text"
    /\ "_version" \in DOMAIN FileOf(T, dir).table
    /\ FileOf(T, dir).table["_version"] = Integer(VERSION(T))

\* load treats the file of T as being at the current version
AtCurrentVersion(T, dir) ==
    /\ FileOf(T, dir).kind = "text"
    /\ extract_version(RecordOf(T, dir)) = [panic |-> FALSE, version |-> VERSION(T)]

\* inst is a value of the struct T
WellTyped(T, inst) ==
    /\ DOMAIN inst = Fields(T)
    /\ \A k \in Fields(T) : Accepts(FieldType(T)[k], to_value(T, inst)[k])

\* what a fresh store obtains from directory dir for T when nothing fails
FreshLoad(T, dir) ==
    load_from_dir(T, None, dir,
                  [fault |-> "none", overflow_checks |-> FALSE,
                   map |-> The(MigrationMaps(T, migrations))])

\* the source versions in [v, VERSION) that have a step registered for T
DueSteps(T, v) ==
    {m.from : m \in {x \in migrations : x.id = T}} \cap (v .. VERSION(T) - 1)

Range(seq) == {seq[i] : i \in DOMAIN seq}

\* C1: a load that returns Ok for a registered schema whose file did not
\* exist has created the file; the file decodes to a record with `_version`
\* = VERSION whose other fields are exactly the schema's defaults, and the
\* holder holds the default value.
C1_LoadOfMissingFileWritesDefaults ==
    (last.op = "load" /\ last.result = "Ok" /\ ~last.trace.existed) =>
        LET T == last.id
            rec == RecordOf(T, fs)
        IN  /\ FileOf(T, last.fs_before).kind = "absent"
            /\ HasCurrentVersionKey(T, fs)
            /\ DOMAIN rec \ {"_version"} = Fields(T)
            /\ deserialize(T, rec) = [ok |-> TRUE, inst |-> Default(T)]
            /\ configs[T] = Some(Default(T))

C1_Witness ==
    /\ last.op = "load" /\ last.result = "Ok" /\ ~last.trace.existed
    /\ FileOf(last.id, fs).kind = "text"
    /\ VERSION(last.id) > 1

\* C2: when load returns Ok for a file whose declared version is lower than
\* VERSION, the `_version` on disk equals VERSION and the holder is Loaded
\* with a value of the current schema type.
C2_OlderFileIsBroughtToCurrentVersion ==
    (last.op = "load" /\ last.result = "Ok" /\ last.trace.existed
     /\ last.trace.from < VERSION(last.id)) =>
        LET T == last.id
        IN  /\ HasCurrentVersionKey(T, fs)
            /\ configs[T].loaded
            /\ WellTyped(T, configs[T].inst)

C2_Witness ==
    /\ last.op = "load" /\ last.result = "Ok" /\ last.trace.existed
    /\ last.trace.from = 2 /\ VERSION(last.id) = 3
    /\ FileOf(last.id, last.fs_before).table["_version"] = Integer(2)

\* C3: one migrate call on a record at version v < VERSION applies the
\* registered steps in strictly increasing source-version order, each step
\* registered in [v, VERSION) exactly once (up to the step that fails, if one
\* does); a v1 record with steps for source versions 1 and 2 ends at version
\* 3 with the effects of both steps.
C3_StepsRunInIncreasingOrderOnce ==
    (last.op = "load" /\ last.trace.migrate \in {"Ok", "Err"}
     /\ last.trace.from < VERSION(last.id)) =>
        LET T == last.id
            ap == last.trace.applied
            due == DueSteps(T, last.trace.from)
        IN  /\ \A i, j \in DOMAIN ap : i < j => ap[i] < ap[j]
            /\ Range(ap) \subseteq due
            /\ last.trace.migrate = "Ok" => Range(ap) = due
            /\ last.trace.migrate = "Err" =>
                  /\ ap # <<>>
                  /\ Range(ap) = {w \in due : w <= ap[Len(ap)]}
            /\ (last.result = "Ok" /\ last.trace.from = 1
                /\ migrations = TestRegistry) =>
                  /\ ap = <<1, 2>>
                  /\ HasCurrentVersionKey(T, fs)
                  /\ configs[T].inst["timeout"] = Payload(60, "")
                  /\ configs[T].inst["max_retries"] = Payload(5, "")
                  /\ RecordOf(T, fs)["timeout"] = I64(60)
                  /\ RecordOf(T, fs)["max_retries"] = I64(5)

C3_Witness ==
    /\ last.op = "load" /\ last.result = "Ok"
    /\ last.trace.from = 1 /\ last.trace.applied = <<1, 2>>
    /\ configs[last.id].inst["timeout"] = Payload(60, "")
    /\ configs[last.id].inst["max_retries"] = Payload(5, "")

\* C4: merge_defaults of a record r with the schema defaults d yields a map
\* whose keys are keys(r) united with keys(d), in which every key of r keeps
\* r's value and every key only in d has d's value.
C4_MergeDefaultsNeverOverwrites ==
    (last.op \in {"load", "load_all"} /\ last.id \in ConfigTypes) =>
        LET d == to_value(last.id, Default(last.id))
        IN  \A m \in last.trace.merges :
                /\ DOMAIN m.out = DOMAIN m.in \cup DOMAIN d
                /\ \A k \in DOMAIN m.in : m.out[k] = m.in[k]
                /\ \A k \in DOMAIN d \ DOMAIN m.in : m.out[k] = d[k]

C4_Witness ==
    /\ last.op = "load" /\ last.id \in ConfigTypes
    /\ \E m \in last.trace.merges :
          LET d == to_value(last.id, Default(last.id))
          IN  /\ \E k \in DOMAIN m.in \cap DOMAIN d : m.in[k] # d[k]
              /\ DOMAIN d \ DOMAIN m.in # {}
              /\ DOMAIN m.in \ DOMAIN d # {}

\* C5: a load of a file that is already at the current version writes
\* nothing and, when it returns Ok, leaves in the holder the value the file
\* decodes to; a load right after a load that returned Ok (migrating or not)
\* returns the same typed value and leaves the directory as it is.
C5_AtCurrentVersion ==
    (last.op = "load" /\ last.id \in DOMAIN configs
     /\ AtCurrentVersion(last.id, last.fs_before)) =>
        /\ fs = last.fs_before
        /\ ~last.trace.saved
        /\ last.result = "Ok" =>
              configs[last.id] =
                  Some(deserialize(last.id, RecordOf(last.id, fs)).inst)

C5_SecondLoad ==
    (/\ last.op = "load" /\ last.result = "Ok"
     /\ last'.op = "load" /\ last'.id = last.id /\ last'.result = "Ok") =>
        /\ configs'[last.id] = configs[last.id]
        /\ fs' = fs
        /\ ~last'.trace.saved

C5_LoadIsIdempotent == [](C5_AtCurrentVersion) /\ [][C5_SecondLoad]_vars

C5_Witness ==
    /\ last.op = "load" /\ last.result = "Ok"
    /\ last.trace.existed /\ ~last.trace.needs_migration
    /\ FileOf(last.id, fs).fmt = "pretty"
    /\ last.before = configs[last.id]
    /\ VERSION(last.id) > 1

\* C6: when the closure passed to update returns an error, update returns
\* that error, save is not invoked and the directory is what it was before
\* the call.
C6_FailedUpdateWritesNothing ==
    (last.op = "update" /\ last.called /\ ~last.f.ok) =>
        /\ last.result = "Err" /\ last.err = "Closure"
        /\ ~last.trace.saved
        /\ fs = last.fs_before

C6_Witness ==
    /\ last.op = "update" /\ last.called /\ ~last.f.ok
    /\ last.f.field # ""
    /\ FileOf(last.id, fs).kind = "text"
    /\ deserialize(last.id, RecordOf(last.id, fs)).inst # configs[last.id].inst

\* C7: when the closure returns an error after changing the value, the
\* holder afterwards has the value as the closure left it (no rollback), and
\* get returns the holder's value.
C7_FailedUpdateKeepsTheMutation ==
    /\ (last.op = "update" /\ last.called /\ ~last.f.ok) =>
          configs[last.id] = Some(Apply(last.f, last.before.inst))
    /\ (last.op = "get" /\ last.result = "Ok") =>
          last.value = configs[last.id].inst

C7_Witness ==
    /\ last.op = "update" /\ last.called /\ ~last.f.ok
    /\ last.f.field # ""
    /\ last.before.inst[last.f.field] # last.f.to
    /\ configs[last.id].inst[last.f.field] = last.f.to

\* C8: a load that follows an update whose closure returned an error and
\* that returns Ok discards the closure's changes: the holder has the value
\* a store obtains from the directory as it was before the failed update.
C8_Step ==
    (/\ last.op = "update" /\ last.called /\ ~last.f.ok
     /\ last'.op = "load" /\ last'.id = last.id /\ last'.result = "Ok") =>
        configs'[last.id] = FreshLoad(last.id, last.fs_before).holder

C8_NextLoadDiscardsFailedUpdate == [][C8_Step]_vars

C8_Witness ==
    /\ last.op = "load" /\ last.result = "Ok" /\ last.after_failed_update
    /\ last.before.loaded
    /\ last.before # configs[last.id]
    /\ ~last.trace.saved

\* C9: whenever the most recent load or update returned Ok, the file on disk
\* decodes to exactly the value the holder has, with `_version` equal to
\* VERSION, and a fresh store loading the directory obtains the same value.
C9_DiskMatchesHolder ==
    (last.op \in {"load", "update"} /\ last.result = "Ok") =>
        LET T == last.id
        IN  /\ FileOf(T, fs).kind = "text"
            /\ deserialize(T, RecordOf(T, fs)) = [ok |-> TRUE, inst |-> configs[T].inst]
            /\ FreshLoad(T, fs).result = "Ok"
            /\ FreshLoad(T, fs).holder = configs[T]

C9_AfterOkDiskHoldsValueAndVersion ==
    /\ C9_DiskMatchesHolder
    /\ (last.op \in {"load", "update"} /\ last.result = "Ok") =>
          HasCurrentVersionKey(last.id, fs)

\* C10: get, load and update for a type that is not in the store return
\* UnregisteredConfig carrying the type's FILE_NAME; no holder and no file
\* changes and the closure is not called.
C10_Step ==
    (last'.op \in {"get", "load", "update"} /\ last'.id \notin DOMAIN configs) =>
        /\ last'.result = "Err" /\ last'.err = "UnregisteredConfig"
        /\ last'.payload = FILE_NAME(last'.id)
        /\ ~last'.called
        /\ fs' = fs
        /\ configs' = configs

C10_UnregisteredIsRejected == [][C10_Step]_vars

C10_Witness ==
    /\ last.op = "update" /\ last.err = "UnregisteredConfig"
    /\ last.payload = <<"unregistered", "toml">>
    /\ last.f.field # ""
    /\ \E T \in DOMAIN configs : configs[T].loaded

\* the temporary files of save
TempPaths == {with_extension(FILE_NAME(T), "tmp") : T \in ConfigTypes}

NoTempFile(dir) == \A p \in TempPaths : dir[p].kind = "absent"

\* C18: after a sequence of load and update calls of one process that each
\* returned Ok, the directory holds no temporary file of save: a directory
\* without one has none after a call that returns Ok, and a call that saved
\* and returned Ok leaves none for its schema whatever was there before.
C18_Step ==
    (/\ NoTempFile(fs)
     /\ last'.op \in {"load", "load_all", "update"} /\ last'.result = "Ok") =>
        NoTempFile(fs')

C18_SavedLeavesNone ==
    (last.op \in {"load", "update"} /\ last.result = "Ok"
     /\ last.trace.saved) =>
        fs[with_extension(FILE_NAME(last.id), "tmp")].kind = "absent"

C18_NoTempFileSurvivesOkCalls ==
    NoTempFile(fs) /\ [](C18_SavedLeavesNone) /\ [][C18_Step]_vars

C18_Witness ==
    /\ last.op = "update" /\ last.result = "Ok" /\ last.trace.saved
    /\ NoTempFile(last.fs_before) /\ NoTempFile(fs)
    /\ fs # last.fs_before

\* C19: a file whose root table has no `_version` is treated as version 1:
\* a load of it that returns Ok started from version 1, ran every step
\* registered from 1 up to VERSION, and the file then has `_version` =
\* VERSION.
C19_VersionlessFileEndsAtCurrentVersion ==
    (/\ last.op = "load" /\ last.result = "Ok" /\ last.trace.existed
     /\ "_version" \notin DOMAIN FileOf(last.id, last.fs_before).table) =>
        /\ last.trace.from = 1
        /\ Range(last.trace.applied) = DueSteps(last.id, 1)
        /\ HasCurrentVersionKey(last.id, fs)

\* values that are no map, and `_version` values that are no u32
NotMaps == {Str("text"), I64(3), Bool(TRUE)}
NotVersions == {Str("two"), I64(-1), Bool(TRUE)}

\* the file of T parses and declares a `_version` that is no u32
HasBadVersion(T, dir) ==
    /\ FileOf(T, dir).kind = "text"
    /\ "_version" \in DOMAIN RecordOf(T, dir)
    /\ ~Accepts("U32", RecordOf(T, dir)["_version"])

\* C20: extract_version panics on a value that is no map and on a
\* `_version` that is no unsigned integer instead of answering 1; a load that
\* reads such a file panics, runs no step, writes nothing and leaves the
\* holder as it was.
C20_BadVersionIsFatal ==
    /\ \A v \in NotMaps : extract_version(v).panic
    /\ \A v \in NotVersions :
          extract_version(Insert(EmptyMap, "_version", v)).panic
    /\ (last.op = "load" /\ last.id \in DOMAIN configs
        /\ HasBadVersion(last.id, last.fs_before) /\ last.err # "Io") =>
          /\ last.result = "panic"
          /\ last.trace.applied = <<>> /\ last.trace.merges = {}
          /\ last.trace.iterations = 0
          /\ ~last.trace.saved
          /\ fs = last.fs_before
          /\ configs[last.id] = last.before

C20_Witness ==
    /\ last.op = "load" /\ last.result = "panic"
    /\ HasBadVersion(last.id, fs)
    /\ RecordOf(last.id, fs)["_version"].t = "String"
    /\ DueSteps(last.id, 1) # {}

(***************************************************************************)
(* Properties of the file primitives.  procs[p].found is the inode the     *)
(* target named when p's call began (0: absent), procs[p].at the step at   *)
(* which a call failed or the process died.                                *)
(***************************************************************************)
\* every process but p has done nothing
Alone(p) == \A q \in Procs \ {p} : procs[q].pc = "idle"

\* the contents that are complete: the previous one and those passed to a
\* call
CompleteContents == {Old} \cup {Bytes(p) : p \in Procs}

\* the target is what p found: absent, or the same file with Old in it
TargetAsFound(p) ==
    /\ dirents[Target] = procs[p].found
    /\ procs[p].found # 0 => ContentOf(Target) = Old

\* C11: while processes run save for one schema concurrently or die inside
\* it, the schema's file holds at every moment its complete previous content
\* or the complete content of one of the saves.
C11_TargetAlwaysComplete ==
    dirents[Target] # 0 => ContentOf(Target) \in CompleteContents

\* the writes that returned Ok
OkWriters ==
    {p \in Procs : procs[p].op = "write" /\ procs[p].pc = "done"
                   /\ procs[p].result = "Ok"}

\* C12: once the racing AtomicFile::write calls have all returned, none of
\* their temporary files is in the directory, and when a call returned Ok
\* the target's content is exactly the content passed to one of the calls
\* that returned Ok.
C12_RacingWritesLeaveOneContent ==
    (\A p \in Procs : procs[p].pc \in {"idle", "done"}) =>
        /\ \A p \in Procs : dirents[TempName(p)] = 0
        /\ OkWriters # {} =>
              /\ dirents[Target] # 0
              /\ ContentOf(Target) \in {Bytes(p) : p \in OkWriters}

\* both calls returned Ok after opening the same file, the second to get the
\* lock was p1
C12_Witness ==
    /\ \A p \in Procs : procs[p].pc \in {"idle", "done"}
    /\ Cardinality(OkWriters) = 2
    /\ ContentOf(Target) = Bytes("p1")
    /\ procs["p1"].fd = procs["p2"].fd

\* C13: every AtomicFile::read returns a content that was the complete
\* content of the target at some point: the content found, the empty content
\* of a file the call created, or the full argument of a write.
C13_ReadsReturnCompleteContent ==
    \A p \in Procs :
        (procs[p].op = "read" /\ procs[p].pc = "done") =>
            /\ procs[p].result = "Ok"
            /\ procs[p].ret \in CompleteContents \cup {<<>>}

\* the writers between acquiring the exclusive lock and releasing it
InCriticalSection ==
    {p \in Procs : procs[p].pc \in {"tmp", "write", "sync", "persist", "unlock"}}

\* C14: at most one AtomicFile::write is between acquiring its exclusive
\* lock and releasing it at any time.
C14_WritersMutuallyExclusive == Cardinality(InCriticalSection) <= 1

\* C15: an AtomicFile::write that fails at temp-file creation, write, sync
\* or rename returns the error and leaves the target as it was before the
\* call: the same content, or still absent.
C15_FailedWriteLeavesTargetAsFound ==
    \A p \in Procs :
        (/\ procs[p].op = "write" /\ procs[p].pc = "done"
         /\ procs[p].at \in {"create", "write", "sync", "rename"}
         /\ Alone(p)) =>
            /\ procs[p].result = "Err"
            /\ TargetAsFound(p)

\* the names bound in the directory
Entries == {n \in Names : dirents[n] # 0}

\* C16: after a crash inside AtomicFile::write between the creation of the
\* temporary file and the rename, the target is as it was before the call
\* and the only leftover is the temporary file.
C16_CrashBeforeRenameLeavesOnlyTemp ==
    \A p \in Procs :
        (/\ procs[p].op = "write" /\ procs[p].pc = "crashed"
         /\ procs[p].at \in {"write", "sync", "persist"}
         /\ Alone(p)) =>
            /\ TargetAsFound(p)
            /\ Entries = {TempName(p)} \cup
                         (IF procs[p].found # 0 THEN {Target} ELSE {})

\* the part of C16 for a target that existed before the call
C16_ExistingTargetIntact ==
    \A p \in Procs :
        (/\ procs[p].op = "write" /\ procs[p].pc = "crashed"
         /\ procs[p].at \in {"write", "sync", "persist"}
         /\ procs[p].found # 0 /\ Alone(p)) =>
            /\ TargetAsFound(p)
            /\ Entries = {TempName(p), Target}

\* C17: AtomicFile::read returns the full content of an existing file, and
\* for an absent path creates an empty file and returns the empty content.
C17_ReadReturnsContentOrCreates ==
    \A p \in Procs :
        (procs[p].op = "read" /\ procs[p].pc = "done" /\ Alone(p)) =>
            /\ procs[p].result = "Ok"
            /\ procs[p].found # 0 =>
                  procs[p].ret = Old /\ TargetAsFound(p)
            /\ procs[p].found = 0 =>
                  /\ procs[p].ret = <<>>
                  /\ dirents[Target] # 0 /\ ContentOf(Target) = <<>>

(***************************************************************************)
(* Errors, panics and the holder's state.                                  *)
(***************************************************************************)
\* the errors load returns
LoadErrors == {"Io", "TomlDeserialization", "Migration", "Deserialization"}

C22_FailedStepAbortsLoad ==
    (last.op = "load" /\ last.trace.migrate = "Err") =>
        LET ap == last.trace.applied
            failed == ap[Len(ap)]
        IN  /\ ap # <<>>
            /\ \E x \in migrations :
                  x.id = last.id /\ x.from = failed /\ x.f = "FailingStep"
            /\ \A i \in DOMAIN ap : ap[i] <= failed
            /\ last.trace.from <= failed =>
                  last.trace.iterations = failed - last.trace.from + 1
            /\ last.result = "Err" /\ last.err = "Migration"
            /\ ~last.trace.saved
            /\ fs = last.fs_before
            /\ configs[last.id] = last.before

\* the step for version 1 failed while a step for version 2 is registered
C22_Witness ==
    /\ last.op = "load" /\ last.result = "Err" /\ last.err = "Migration"
    /\ last.trace.applied = <<1>>
    /\ 2 \in DueSteps(last.id, 1)
    /\ FileOf(last.id, fs).kind = "text"
    /\ ~last.before.loaded

\* the files of schema T: its configuration file and save's temporary file
FilesOf(T) == {FILE_NAME(T), with_extension(FILE_NAME(T), "tmp")}

\* C23: a load_all that returns an error stopped at the schema whose load
\* failed: the schemas visited before it are Loaded with the value and the
\* file their load produced, the schemas not visited have the holder and the
\* files they had before the pass.
C23_Step ==
    (last'.op = "load_all" /\ last'.result = "Err") =>
        LET vis == last'.visited
        IN  /\ vis # <<>>
            /\ last'.id = vis[Len(vis)]
            /\ last'.err \in LoadErrors
            /\ \A i \in 1..(Len(vis) - 1) :
                  \E ch \in Choices(vis[i], migrations) :
                  \E r \in {load_from_dir(vis[i], configs[vis[i]], fs, ch)} :
                      /\ r.result = "Ok"
                      /\ configs'[vis[i]] = r.holder
                      /\ configs'[vis[i]].loaded
                      /\ \A p \in FilesOf(vis[i]) : fs'[p] = r.fs[p]
            /\ \A T \in DOMAIN configs \ Range(vis) :
                  /\ configs'[T] = configs[T]
                  /\ \A p \in FilesOf(T) : fs'[p] = fs[p]

C23_LoadAllStopsAtFirstFailure == [][C23_Step]_vars

\* a pass that loaded one schema, writing its file, and failed at the next
C23_Witness ==
    /\ last.op = "load_all" /\ last.result = "Err"
    /\ Len(last.visited) = 2
    /\ configs[last.visited[1]].loaded
    /\ fs[FILE_NAME(last.visited[1])] # last.fs_before[FILE_NAME(last.visited[1])]

\* a pass that failed at the first schema and left a Loaded one unvisited
C23_UnvisitedWitness ==
    /\ last.op = "load_all" /\ last.result = "Err"
    /\ Len(last.visited) = 1
    /\ \E T \in DOMAIN configs \ Range(last.visited) : configs[T].loaded


\* the calls a store takes once it is constructed
StoreCalls == {"load", "load_all", "get", "update"}

\* C24: no call of load, load_all, get or update, whatever it returns, takes
\* a holder that is Loaded back to Empty.
C24_Step ==
    last'.op \in StoreCalls =>
        \A T \in DOMAIN configs : configs[T].loaded => configs'[T].loaded

C24_LoadedStaysLoaded == [][C24_Step]_vars

\* a load of a Loaded holder failed to read the file and the holder is still
\* Loaded
C24_Witness ==
    /\ last.op = "load"
    /\ last.result = "Err"
    /\ last.err = "Io"
    /\ ~last.trace.saved
    /\ last.before.loaded
    /\ configs[last.id].loaded

\* C25: after a load of a registered schema that returned an error the holder
\* is what it was before the call.
C25_FailedLoadLeavesHolder ==
    (last.op = "load" /\ last.result = "Err" /\ last.id \in DOMAIN configs) =>
        configs[last.id] = last.before

\* the load of an Empty holder failed in save and the holder is Loaded
C25_EmptyHolderLoadedByFailedLoad ==
    /\ last.op = "load"
    /\ last.result = "Err"
    /\ last.err = "Io"
    /\ last.trace.saved
    /\ ~last.before.loaded
    /\ configs[last.id].loaded

\* C26: get and update on a registered schema whose holder is Empty panic;
\* the closure of update is not called, no holder and no file changes.
C26_Step ==
    (/\ last'.op \in {"get", "update"}
     /\ last'.id \in DOMAIN configs
     /\ ~configs[last'.id].loaded) =>
        /\ last'.result = "panic"
        /\ ~last'.called
        /\ configs' = configs
        /\ fs' = fs

C26_EmptyHolderPanics == [][C26_Step]_vars

\* update was called on an Empty holder with a closure that would have
\* changed the value
C26_Witness ==
    /\ last.op = "update"
    /\ last.id \in DOMAIN configs
    /\ ~configs[last.id].loaded
    /\ last.f # NoMutator
    /\ last.result = "panic"

\* get was called on an Empty holder
C26_GetWitness ==
    /\ last.op = "get"
    /\ last.id \in DOMAIN configs
    /\ ~configs[last.id].loaded
    /\ last.result = "panic"


\* the versions in [v, VERSION) for which no step of T is registered
Gaps(T, v) == (v .. VERSION(T) - 1) \ DueSteps(T, v)

\* no registered step of T for a version in [v, VERSION) returns an error
StepsSucceed(T, v) ==
    \A x \in migrations :
        (x.id = T /\ x.from \in DueSteps(T, v)) => x.f # "FailingStep"

\* C27: a load of a file at a version v < VERSION with a version in
\* [v, VERSION) that has no registered step: migrate returns Ok, its loop ran
\* VERSION - v times and merged the defaults, the value it leaves has
\* `_version` = VERSION and the schema's fields, only the registered steps
\* were applied; a load that returns Ok leaves the file at VERSION.
C27_MissingStepIsNoError ==
    (/\ last.op = "load"
     /\ last.id \in DOMAIN configs
     /\ last.trace.migrate # ""
     /\ last.trace.from >= 1
     /\ Gaps(last.id, last.trace.from) # {}
     /\ StepsSucceed(last.id, last.trace.from)) =>
        LET T == last.id
            v == last.trace.from
        IN  /\ last.trace.migrate = "Ok"
            /\ last.trace.needs_migration
            /\ last.trace.iterations = VERSION(T) - v
            /\ last.trace.merges # {}
            /\ Range(last.trace.applied) = DueSteps(T, v)
            /\ last.err # "Migration"
            /\ \A map \in MigrationMaps(T, migrations) :
               \A mig \in {migrate(T, map, TRUE, RecordOf(T, last.fs_before))} :
                  /\ mig.status = "Ok"
                  /\ mig.value["_version"] = U32(VERSION(T))
                  /\ Fields(T) \subseteq DOMAIN mig.value
            /\ last.result = "Ok" =>
                  /\ last.trace.saved
                  /\ HasCurrentVersionKey(T, fs)
                  /\ configs[T].loaded

\* a file at version 2, for which no step is registered, was loaded: no step
\* ran, the field the file lacked has its default and the file is at VERSION
C27_Witness ==
    /\ last.op = "load" /\ last.result = "Ok"
    /\ last.trace.from = 2
    /\ Gaps(last.id, 2) = {2}
    /\ last.trace.applied = <<>>
    /\ "max_retries" \notin DOMAIN RecordOf(last.id, last.fs_before)
    /\ configs[last.id].inst["max_retries"]
          = Default(last.id)["max_retries"]
    /\ HasCurrentVersionKey(last.id, fs)

\* a file at version 1 was loaded with the step for 1 registered and none
\* for 2
C27_StepThenGapWitness ==
    /\ last.op = "load" /\ last.result = "Ok"
    /\ last.trace.from = 1
    /\ Gaps(last.id, 1) = {2}
    /\ last.trace.applied = <<1>>
    /\ last.trace.iterations = 2


\* C28: a load of a file whose `_version` is greater than VERSION returns an
\* error, applies no step, leaves the directory as it was and leaves the
\* holder as it was.
C28_NewerFileIsRejected ==
    (/\ last.op = "load"
     /\ last.id \in DOMAIN configs
     /\ last.trace.from > VERSION(last.id)) =>
        /\ last.result = "Err"
        /\ last.trace.applied = <<>>
        /\ fs = last.fs_before
        /\ configs[last.id] = last.before


\* the registered step of T for source version w
StepFor(T, w) == CHOOSE x \in migrations : x.id = T /\ x.from = w

\* the keys the MigrateFn named f inserts, with the values it gives them
Assigned(f) == ApplyStep(f, EmptyMap).value

\* the value field k of T has after a load that applied the steps `applied`
\* to a file without k: the value of the last step that inserts k, the
\* schema default when none does
ValueOfMissing(T, k, applied) ==
    LET ws == {i \in DOMAIN applied :
                 k \in DOMAIN Assigned(StepFor(T, applied[i]).f)}
    IN  IF ws = {} THEN Default(T)[k]
        ELSE LET i == CHOOSE j \in ws : \A h \in ws : h <= j
                 x == Assigned(StepFor(T, applied[i]).f)[k]
             IN  Payload(x.n, x.s)

\* the schema fields the file of T in dir has are of the field's type
PresentFieldsWellTyped(T, dir) ==
    \A k \in Fields(T) \cap DOMAIN RecordOf(T, dir) :
        Accepts(FieldType(T)[k], RecordOf(T, dir)[k])

\* the schema fields the file of T in dir lacks
MissingFields(T, dir) == Fields(T) \ DOMAIN RecordOf(T, dir)

\* the last call loaded an existing file of a registered schema at a version
\* 1 <= v <= VERSION whose present fields are well-typed, and no step due
\* returns an error
C29_Case ==
    /\ last.op = "load"
    /\ last.id \in DOMAIN configs
    /\ last.trace.existed
    /\ last.trace.migrate \notin {"", "panic"}
    /\ last.trace.from >= 1
    /\ last.trace.from <= VERSION(last.id)
    /\ PresentFieldsWellTyped(last.id, last.fs_before)
    /\ StepsSucceed(last.id, last.trace.from)

C29_SerdeDefaultWitness ==
    /\ C29_Case
    /\ last.result = "Ok"
    /\ last.trace.from = VERSION(last.id)
    /\ serde_default(last.id)
    /\ MissingFields(last.id, last.fs_before) # {}


\* C30: a load of a file at the current version that lacks a schema field,
\* for a struct without #[serde(default)], returns a Deserialization error;
\* the holder is what it was before the load and the directory is not
\* written.
C30_MissingFieldAtCurrentVersionFails ==
    (/\ last.op = "load"
     /\ last.id \in DOMAIN configs
     /\ last.trace.existed
     /\ last.trace.migrate = "Ok"
     /\ last.trace.from = VERSION(last.id)
     /\ MissingFields(last.id, last.fs_before) # {}
     /\ ~serde_default(last.id)) =>
        /\ last.result = "Err"
        /\ last.err = "Deserialization"
        /\ last.trace.applied = <<>>
        /\ ~last.trace.saved
        /\ configs[last.id] = last.before
        /\ fs = last.fs_before

\* a file with `_version` = VERSION and well-typed fields but no timeout was
\* loaded
C30_Witness ==
    /\ last.op = "load"
    /\ last.result = "Err"
    /\ last.err = "Deserialization"
    /\ HasCurrentVersionKey(last.id, last.fs_before)
    /\ PresentFieldsWellTyped(last.id, last.fs_before)
    /\ "timeout" \in MissingFields(last.id, last.fs_before)
    /\ FileOf(last.id, fs) = FileOf(last.id, last.fs_before)


(***************************************************************************)
(* Steps, defaults and what reaches the disk                               *)
(***************************************************************************)
\* the keys some applied step of T inserts
KeysOfSteps(T, applied) ==
    UNION {DOMAIN Assigned(StepFor(T, applied[i]).f) : i \in DOMAIN applied}

\* C31: after a load that returned Ok for an existing file, a field that an
\* applied step writes has the step's value, whether or not the file or the
\* defaults had the key, and a field the file had that no applied step
\* writes has the file's value; when the load migrated, the file it saved
\* decodes to the same fields at `_version` = VERSION.
C31_StepValueWinsOverDefault ==
    (/\ last.op = "load"
     /\ last.result = "Ok"
     /\ last.trace.existed) =>
        LET T == last.id
            rec == RecordOf(T, last.fs_before)
            ap == last.trace.applied
        IN  /\ \A k \in Fields(T) \cap KeysOfSteps(T, ap) :
                  configs[T].inst[k] = ValueOfMissing(T, k, ap)
            /\ \A k \in (Fields(T) \cap DOMAIN rec) \ KeysOfSteps(T, ap) :
                  configs[T].inst[k] = Payload(rec[k].n, rec[k].s)
            /\ last.trace.needs_migration =>
                  /\ HasCurrentVersionKey(T, fs)
                  /\ deserialize(T, RecordOf(T, fs)).inst = configs[T].inst

\* a version 1 file with name and max_retries but no timeout was loaded with
\* only the step for 1 applied: timeout is the step's 60 and not the default
\* 30, name and max_retries are the file's, the file is at VERSION
C31_Witness ==
    /\ last.op = "load" /\ last.result = "Ok"
    /\ last.trace.from = 1
    /\ last.trace.applied = <<1>>
    /\ DOMAIN RecordOf(last.id, last.fs_before)
          = {"_version", "name", "max_retries"}
    /\ Default(last.id)["timeout"] = Payload(30, "")
    /\ configs[last.id].inst
          = [name |-> Payload(0, "legacy_config"), timeout |-> Payload(60, ""),
             max_retries |-> Payload(7, "")]
    /\ HasCurrentVersionKey(last.id, fs)


\* content is a TOML document whose root table has `_version` = VERSION(T)
WrittenAtCurrentVersion(T, content) ==
    /\ content.kind = "text"
    /\ "_version" \in DOMAIN content.table
    /\ content.table["_version"] = Integer(VERSION(T))

\* C32: whenever a call changes the configuration file of a registered
\* schema, the new content is a table with `_version` = VERSION; a content
\* written out in full to save's temporary file is one too (a write that
\* failed leaves a truncated text there, a rename leaves nothing).
C32_Step ==
    \A T \in DOMAIN configs :
        LET target == FILE_NAME(T)
            temp_path == with_extension(target, "tmp")
        IN  /\ fs'[target] # fs[target] =>
                  WrittenAtCurrentVersion(T, fs'[target])
            /\ fs'[temp_path] # fs[temp_path] =>
                  \/ fs'[temp_path].kind \in {"absent", "partial"}
                  \/ WrittenAtCurrentVersion(T, fs'[temp_path])

C32_WrittenFilesCarryCurrentVersion == [][C32_Step]_vars

\* a load rewrote a file that declared a version other than VERSION
C32_Witness ==
    /\ last.op = "load" /\ last.result = "Ok"
    /\ last.trace.existed
    /\ last.trace.from # VERSION(last.id)
    /\ FileOf(last.id, fs) # FileOf(last.id, last.fs_before)
    /\ WrittenAtCurrentVersion(last.id, FileOf(last.id, fs))

\* an update wrote the file
C32_UpdateWitness ==
    /\ last.op = "update" /\ last.result = "Ok"
    /\ FileOf(last.id, fs) # FileOf(last.id, last.fs_before)
    /\ WrittenAtCurrentVersion(last.id, FileOf(last.id, fs))

\* a rename failed and left the complete content in the temporary file
C32_TempWitness ==
    /\ last.result = "Err" /\ last.err = "Io"
    /\ last.id \in DOMAIN configs
    /\ WrittenAtCurrentVersion(last.id,
                               fs[with_extension(FILE_NAME(last.id), "tmp")])


\* C33: a load of a file at version v applies no step whose source version
\* is outside [v, VERSION); at v = VERSION it applies no step and merges no
\* defaults.
C33_OnlyStepsInRangeApplied ==
    (/\ last.op = "load"
     /\ last.id \in DOMAIN configs
     /\ last.trace.migrate \notin {"", "panic"}) =>
        /\ Range(last.trace.applied)
              \subseteq (last.trace.from .. VERSION(last.id) - 1)
        /\ last.trace.from = VERSION(last.id) =>
              last.trace.applied = <<>> /\ last.trace.merges = {}


(***************************************************************************)
(* The store's file operations against the AtomicFile protocol             *)
(***************************************************************************)
\* C34: a process running ConfigData::save holds, from the creation of the
\* temporary file until the rename, an exclusive lock, and the temporary
\* file it writes is a file it alone has open.
C34_SaveFollowsAtomicFileProtocol ==
    \A p \in Savers :
        (procs[p].op = "save" /\ procs[p].pc \in {"s_write", "s_rename"}) =>
            /\ \E l \in flocks : l.by = p /\ l.mode = "exclusive"
            /\ \A q \in Savers \ {p} :
                  procs[q].pc \in {"s_write", "s_rename"} =>
                      procs[q].fd # procs[p].fd


\* the positions of AtomicFile::write in the order of its statements
WriteOrder ==
    <<"idle", "lock", "tmp", "write", "sync", "persist", "unlock", "done">>

PositionOf(pc) == CHOOSE i \in DOMAIN WriteOrder : WriteOrder[i] = pc

\* p holds an exclusive lock
HoldsExclusive(p, locks) == \E l \in locks : l.by = p /\ l.mode = "exclusive"

\* C35: every step of an AtomicFile::write that neither fails nor dies moves
\* one position forward in the order lock, create, write, sync, rename,
\* release; the temporary file is created and written under the lock, the
\* rename happens only after the sync, of the complete content and under the
\* lock, and a call that returns Ok releases the lock only after the rename.
C35_Step ==
    \A p \in Procs :
        (procs'[p].op = "write" /\ procs'[p] # procs[p]
         /\ procs'[p].pc # "crashed" /\ procs'[p].result # "Err") =>
            /\ PositionOf(procs'[p].pc) - PositionOf(procs[p].pc) \in {0, 1}
            /\ (dirents[TempName(p)] = 0 /\ dirents'[TempName(p)] # 0) =>
                  /\ procs[p].pc = "tmp"
                  /\ HoldsExclusive(p, flocks)
            /\ (dirents[TempName(p)] # 0 /\ dirents'[TempName(p)] # 0
                /\ inodes'[dirents[TempName(p)]] # ContentOf(TempName(p))) =>
                  /\ procs[p].pc = "write"
                  /\ HoldsExclusive(p, flocks)
            /\ procs'[p].pc = "persist" /\ procs[p].pc # "persist" =>
                  /\ procs[p].pc = "sync"
                  /\ ContentOf(TempName(p)) = Bytes(p)
            /\ (dirents[TempName(p)] # 0
                /\ dirents'[Target] = dirents[TempName(p)]) =>
                  /\ procs[p].pc = "persist"
                  /\ procs'[p].pc = "unlock"
                  /\ ContentOf(TempName(p)) = Bytes(p)
                  /\ HoldsExclusive(p, flocks)
                  /\ HoldsExclusive(p, flocks')
            /\ (HoldsExclusive(p, flocks) /\ ~HoldsExclusive(p, flocks')) =>
                  procs[p].pc = "unlock" /\ procs'[p].pc = "done"

C35_WriteStepsInOrder == [][C35_Step]_vars

\* a write has renamed its complete temporary file onto the target and still
\* holds its lock
C35_Witness ==
    \E p \in Procs :
        /\ procs[p].op = "write" /\ procs[p].pc = "unlock"
        /\ HoldsExclusive(p, flocks)
        /\ dirents[TempName(p)] = 0
        /\ dirents[Target] # 0
        /\ ContentOf(Target) = Bytes(p)


\* C36: without crashes and I/O failures and with every started process
\* scheduled fairly, every AtomicFile::write and AtomicFile::read that has
\* started returns, and a call that has returned holds no lock.
C36_EveryCallReturns ==
    /\ [](\A p \in Procs :
            procs[p].pc = "done" => \A l \in flocks : l.by # p)
    /\ \A p \in Procs : (procs[p].pc # "idle") ~> (procs[p].pc = "done")

\* a writer waits for the lock another writer holds
C36_Witness ==
    \E p \in Writers, q \in Writers :
        /\ p # q
        /\ procs[p].pc = "lock"
        /\ ~CanLock(procs[p].fd, p, "exclusive")
        /\ HoldsExclusive(q, flocks)
        /\ procs[q].pc \in {"tmp", "write", "sync", "persist", "unlock"}

\* both writers and the reader have returned
C36_AllReturnedWitness ==
    /\ \A p \in Procs : procs[p].pc = "done"
    /\ flocks = {}


\* the value the file of T in dir deserializes to
PersistedValue(T, dir) == deserialize(T, RecordOf(T, dir)).inst

\* C37: when an update whose closure returned an error, made on a holder
\* that held the persisted value, is followed by an update of the same
\* schema that returns Ok with closure m, the file then holds m applied to
\* the value that was persisted before the failed update.
C37_Step ==
    (/\ last.op = "update" /\ last.err = "Closure"
     /\ FileOf(last.id, last.fs_before).kind = "text"
     /\ last.before.inst = PersistedValue(last.id, last.fs_before)
     /\ last'.op = "update" /\ last'.id = last.id /\ last'.result = "Ok") =>
        PersistedValue(last.id, fs')
            = Apply(last'.f, PersistedValue(last.id, last.fs_before))

C37_FailedMutationNeverReachesDisk == [][C37_Step]_vars


\* C38: for every declared version v the loop of migrate ends without the
\* version counter passing u32::MAX: it does not panic on overflow, the
\* counter stays within v .. u32::MAX, and for v <= VERSION a migrate that
\* returns Ok has run exactly VERSION - v iterations.
C38_LoopTerminatesWithoutOverflow ==
    (/\ last.op = "load"
     /\ last.id \in DOMAIN configs
     /\ last.trace.migrate # ""
     /\ last.trace.from >= 1) =>
        /\ last.trace.migrate # "panic"
        /\ last.trace.iterations <= U32_MAX - last.trace.from
        /\ (last.trace.from <= VERSION(last.id)
            /\ last.trace.migrate = "Ok") =>
              last.trace.iterations = VERSION(last.id) - last.trace.from


(***************************************************************************)
(* Schemas side by side                                                    *)
(***************************************************************************)
\* C39: a load or update of schema A leaves the file of every other
\* registered schema with a different FILE_NAME as it was, and the temporary
\* path of save for A is neither A's file nor the file of another registered
\* schema.
C39_Step ==
    \A A \in DOMAIN configs :
        /\ with_extension(FILE_NAME(A), "tmp")
              \notin {FILE_NAME(B) : B \in DOMAIN configs}
        /\ (last'.op \in {"load", "update"} /\ last'.id = A) =>
              \A B \in DOMAIN configs \ {A} :
                  FILE_NAME(B) # FILE_NAME(A) =>
                      fs'[FILE_NAME(B)] = fs[FILE_NAME(B)]

TimeoutAndRetries(T) ==
    <<configs[T].inst["timeout"].n, configs[T].inst["max_retries"].n>>

\* C40: a load that returned Ok for a file of MultiMigrationConfig at a
\* version v <= VERSION, with two steps registered for (Multi, 2) and steps
\* registered for the same versions under another identity: the name is the
\* file's (the other identity's step, which writes the name, was not
\* applied), each version boundary in [v, VERSION) is crossed once, and the
\* value shows the effect of exactly one of the two steps for version 2.
C40_OnlyOwnStepsOnePerVersion ==
    (/\ last.op = "load" /\ last.result = "Ok"
     /\ last.id = "MultiMigrationConfig"
     /\ last.trace.existed
     /\ last.trace.from <= VERSION(last.id)) =>
        LET T == last.id
            rec == RecordOf(T, last.fs_before)
            ap == last.trace.applied
        IN  /\ configs[T].inst["name"] = Payload(0, rec["name"].s)
            /\ \A i, j \in DOMAIN ap : i < j => ap[i] < ap[j]
            /\ Range(ap) = DueSteps(T, last.trace.from)
            /\ Len(ap) = VERSION(T) - last.trace.from
            /\ last.trace.from = 1 =>
                  TimeoutAndRetries(T) \in {<<60, 5>>, <<90, 3>>}
            /\ (last.trace.from = 2 /\ rec["timeout"] = I64(120)) =>
                  TimeoutAndRetries(T) \in {<<120, 5>>, <<90, 3>>}

\* a version 2 file was loaded with the second of the two steps for version
\* 2: the first one, which writes max_retries, was not applied as well
C40_Witness ==
    /\ last.op = "load" /\ last.result = "Ok"
    /\ last.trace.from = 2
    /\ last.trace.applied = <<2>>
    /\ Cardinality({m \in migrations :
                       m.id = last.id /\ m.from = 2}) = 2
    /\ \E m \in migrations : m.id # last.id /\ m.from = 2
    /\ TimeoutAndRetries(last.id) = <<90, 3>>
    /\ configs[last.id].inst["name"] = Payload(0, "legacy_config")

\* the same file loaded with the first of the two steps
C40_FirstStepWitness ==
    /\ last.op = "load" /\ last.result = "Ok"
    /\ last.trace.from = 2
    /\ Cardinality({m \in migrations :
                       m.id = last.id /\ m.from = 2}) = 2
    /\ TimeoutAndRetries(last.id) = <<120, 5>>

====
